---- MODULE Spec2Model ----
(***************************************************************************)
(* Model of the twinspeak session protocol engine: the per-connection      *)
(* dispatch loop (srv/ws.go handleSpeakWS and its handlers), the session   *)
(* entity and the session store (pkg/session).                             *)
(*                                                                         *)
(* Go strings that are formatted by the code are sequences of tokens, so   *)
(* that fmt.Sprintf is a concatenation: "[echo] hi" is <<"[echo] ","hi">>. *)
(* A JSON document is [kind, fields]; fields is a set of                   *)
(* <<name, kind, value>> triples.                                          *)
(***************************************************************************)
EXTENDS Naturals, Sequences, FiniteSets, TLC

\* ------------------------------------------------------------------ bounds
NumConns == 2
MaxFrames == 3
MaxCalls == 3
MaxAppends == 4

Conns == 1..NumConns

\* --------------------------------------------------------- session states
StateConnecting == 0
StateConfigured == 1
StateActive == 2
StateClosing == 3
StateClosed == 4

\* nil *session.Session, and the zero value of session.ID
Nil == 0
NoID == 0

\* ------------------------------------------------------------- JSON input
Str(n, v) == <<n, "string", v>>
Num(n, v) == <<n, "number", v>>
Bool(n, v) == <<n, "bool", v>>
Obj(fields) == [kind |-> "object", fields |-> fields]
Garbage == [kind |-> "garbage", fields |-> {}]

HasField(d, n) == \E t \in d.fields : t[1] = n
Field(d, n) == CHOOSE t \in d.fields : t[1] = n
HasFieldOf(d, n, k) == \E t \in d.fields : t[1] = n /\ t[2] = k

TextFrame(d) == [op |-> "text", data |-> d]
BinaryFrame == [op |-> "binary", data |-> Garbage]
NoFrame == [op |-> "none", data |-> Garbage]

Models == {"gemini-1.5-flash"}
Texts == {"hi"}
AudioFormats == {"wav", "pcm16", "opus"}

SetupFrame(m) == TextFrame(Obj({Str("type", "setup"), Str("model", m)}))
InputTextFrame(t) == TextFrame(Obj({Str("type", "input_text"), Str("text", t)}))
InputAudioFrame(f, fin) ==
  TextFrame(Obj({Str("type", "input_audio"), Str("format", f),
                 Str("chunk", "data"), Bool("final", fin)}))
ToolResultFrame ==
  TextFrame(Obj({Str("type", "tool_result"), Str("name", "test"),
                 Str("call_id", "call_1"), Str("result", "ok")}))
EndSessionFrame == TextFrame(Obj({Str("type", "end_session"), Str("reason", "x")}))

\* the frames a client sends: the well-formed ones and the malformed ones of
\* the tests (TestErrorConditions, TestInvalidMessageFormats,
\* TestNonTextWebSocketMessages)
FrameSet ==
  {BinaryFrame,
   TextFrame(Garbage),
   TextFrame(Obj({})),
   TextFrame(Obj({Num("type", "5")})),
   TextFrame(Obj({Str("type", "unknown_message")})),
   TextFrame(Obj({Str("type", "setup")})),
   TextFrame(Obj({Str("type", "input_text")})),
   TextFrame(Obj({Str("type", "input_audio"), Str("format", "wav")})),
   InputAudioFrame("invalid", "true"),
   TextFrame(Obj({Str("type", "tool_result"), Str("name", "test")})),
   TextFrame(Obj({Str("type", "end_session")})),
   ToolResultFrame,
   EndSessionFrame,
   InputAudioFrame("wav", "true"),
   InputAudioFrame("opus", "false")}
  \cup {SetupFrame(m) : m \in Models}
  \cup {InputTextFrame(t) : t \in Texts}

\* ------------------------------------------------------------------ state
VARIABLES
  pc,         \* position of each connection's handleSpeakWS
  cancelled,  \* the request context that every connection's scope derives
              \* from has been cancelled (ctx.Done() is closed)
  msg,        \* the frame returned by the last ReadClientData (msg, op)
  lateRead,   \* the scope was already cancelled when that frame was read
  sess,       \* var sess *session.Session (index into heap, Nil = nil)
  sessionID,  \* var sessionID session.ID
  heap,       \* the Session objects allocated so far
  store,      \* Store.sessions: map[ID]*Session
  nwritten,   \* number of frames each connection has passed to writeJSON
  lastWrite,  \* the last of them: the frame, whether the transport took it,
              \* and the ordinal of the frame read that it answers
  nread,      \* number of frames each connection has read
  closes,     \* number of conn.Close() calls per connection
  nrejected,  \* number of frames read so far that the code answers with an error
  mu,         \* Store.mu, the sync.RWMutex: the writer holding it, the writer
              \* that has called Lock and waits for the readers to leave,
              \* and the readers holding it
  spc,        \* position of each caller inside a call of Put, Get or Delete
  call,       \* the call a caller is in: op, id, and the session it puts
  tmp,        \* the map contents a writer found when it began its assignment
  got,        \* what Get is about to return: (session, exists)
  ncalls,     \* number of Store calls begun
  abs,        \* history: the registry as the calls define it, each taking
              \* effect at once, a set of <<identifier, session>> pairs
  gone,       \* history: identifiers deleted and not put since
  smu,        \* the sessions' mutexes (Session.mu): the <<session, caller>>
              \* pairs where the caller holds the session's mutex
  apc,        \* position of each caller inside a call of Append
  acall,      \* the Append call a caller is in: the session and the message
  atmp,       \* the log an append found when it began
  asent       \* number of Append calls each caller has begun on its own

regVars == <<mu, spc, call, tmp, got, ncalls, abs, gone>>

appVars == <<smu, apc, acall, atmp, asent>>

connVars == <<pc, cancelled, msg, lateRead, sess, sessionID, nwritten, lastWrite,
              nread, closes, nrejected>>

vars == <<pc, cancelled, msg, lateRead, sess, sessionID, heap, store,
          nwritten, lastWrite, nread, closes, nrejected,
          mu, spc, call, tmp, got, ncalls, abs, gone,
          smu, apc, acall, atmp, asent>>


\* ---------------------------------------------------------------- decoding
\* json.Unmarshal(msg, &env) with envelope{Type string `json:"type"`}
UnmarshalEnvelope(d) ==
  IF d.kind # "object" THEN [err |-> TRUE, Type |-> ""]
  ELSE IF ~HasField(d, "type") THEN [err |-> FALSE, Type |-> ""]
  ELSE IF Field(d, "type")[2] # "string" THEN [err |-> TRUE, Type |-> ""]
  ELSE [err |-> FALSE, Type |-> Field(d, "type")[3]]

\* the generated UnmarshalJSON of the payload types: every required field
\* present and of its type, enumerations checked
UnmarshalSetupRequest(d) ==
  IF HasFieldOf(d, "type", "string") /\ HasFieldOf(d, "model", "string")
  THEN [err |-> FALSE,
        val |-> [type |-> "setup", model |-> <<Field(d, "model")[3]>>]]
  ELSE [err |-> TRUE, val |-> [type |-> "setup", model |-> <<>>]]

UnmarshalClientInputText(d) ==
  IF HasFieldOf(d, "type", "string") /\ HasFieldOf(d, "text", "string")
  THEN [err |-> FALSE,
        val |-> [type |-> "input_text", text |-> <<Field(d, "text")[3]>>]]
  ELSE [err |-> TRUE, val |-> [type |-> "input_text", text |-> <<>>]]

UnmarshalClientInputAudio(d) ==
  IF /\ HasFieldOf(d, "type", "string")
     /\ HasFieldOf(d, "format", "string")
     /\ HasFieldOf(d, "chunk", "string")
     /\ HasFieldOf(d, "final", "bool")
     /\ Field(d, "format")[3] \in AudioFormats
  THEN [err |-> FALSE,
        val |-> [type |-> "input_audio", format |-> Field(d, "format")[3],
                 chunk |-> Field(d, "chunk")[3],
                 final |-> (Field(d, "final")[3] = "true")]]
  ELSE [err |-> TRUE,
        val |-> [type |-> "input_audio", format |-> "", chunk |-> "",
                 final |-> FALSE]]

UnmarshalToolResult(d) ==
  IF /\ HasFieldOf(d, "type", "string")
     /\ HasFieldOf(d, "name", "string")
     /\ HasFieldOf(d, "call_id", "string")
     /\ HasField(d, "result")
  THEN [err |-> FALSE,
        val |-> [type |-> "tool_result", name |-> Field(d, "name")[3],
                 call_id |-> Field(d, "call_id")[3]]]
  ELSE [err |-> TRUE, val |-> [type |-> "tool_result", name |-> "", call_id |-> ""]]

UnmarshalSessionEnd(d) ==
  IF HasFieldOf(d, "type", "string") /\ HasFieldOf(d, "reason", "string")
  THEN [err |-> FALSE,
        val |-> [type |-> "end_session", reason |-> Field(d, "reason")[3]]]
  ELSE [err |-> TRUE, val |-> [type |-> "end_session", reason |-> ""]]

\* fmt's %t
FormatBool(b) == IF b THEN "true" ELSE "false"

\* --------------------------------------------------------- session package
\* NewSession whose identifier is not fresh
NewSession_fixedID(model) ==
  [ID |-> 1, Model |-> model, State |-> StateConnecting,
   ResumptionHandle |-> <<>>, Log |-> <<>>]

\* NewSession: a fresh identifier (uuid.New), state Connecting, empty log
NewSession(model) ==
  [ID |-> Len(heap) + 1, Model |-> model, State |-> StateConnecting,
   ResumptionHandle |-> <<>>, Log |-> <<>>]

\* Append that puts the message at the front of the log
SessionAppend_prepend(h, p, message) == [h EXCEPT ![p].Log = <<message>> \o @]

\* (*Session).Append on the session at address p of heap h
SessionAppend(h, p, message) == [h EXCEPT ![p].Log = Append(@, message)]

SetState(h, p, st) == [h EXCEPT ![p].State = st]

EmptyStore == [id \in {} |-> Nil]

\* Put that keeps the session already stored under the identifier
Put_keepsOld(st, id, p) ==
  [x \in DOMAIN st \cup {id} |-> IF x \in DOMAIN st THEN st[x] ELSE p]

Put(st, id, p) == [x \in DOMAIN st \cup {id} |-> IF x = id THEN p ELSE st[x]]

Get(st, id) ==
  IF id \in DOMAIN st THEN [session |-> st[id], exists |-> TRUE]
  ELSE [session |-> Nil, exists |-> FALSE]

\* Delete that removes nothing
Delete_noop(st, id) == st

\* Delete that empties the map
Delete_all(st, id) == [x \in {} |-> Nil]

Delete(st, id) == [x \in DOMAIN st \ {id} |-> st[x]]

\* ------------------------------------------------------------ srv handlers
\* What one call of a handler did: the connection's locals, the heap and the
\* store after it, the frames it passed to writeJSON, and its return value.
Result(s, id, h, st, w, r) ==
  [sess |-> s, sessionID |-> id, heap |-> h, store |-> st, writes |-> w, ret |-> r]

ErrorJson(code, message) == [type |-> "error", code |-> code, message |-> message]

\* sendError, but the caller gives up the connection after it
sendError_fatal(c, code, message) ==
  [sess |-> sess[c], sessionID |-> sessionID[c], heap |-> heap, store |-> store,
   writes |-> <<[type |-> "error", code |-> code, message |-> message]>>,
   ret |-> TRUE]

\* sendError writes one error frame; a failed write is only logged. The
\* caller then returns false (or continues) with nothing else changed.
sendError(c, code, message) ==
  Result(sess[c], sessionID[c], heap, store, <<ErrorJson(code, message)>>, FALSE)

\* handleSetup without the check for an existing session
handleSetup_noGuard(c, m, wok) ==
  LET setupReq == UnmarshalSetupRequest(m.data) IN
  IF setupReq.err
  THEN sendError(c, "bad_setup", <<"Invalid setup request format">>)
  ELSE
    LET p == Len(heap) + 1
        s0 == NewSession(setupReq.val.model)
        s1 == [s0 EXCEPT !.State = StateConfigured]
        s2 == [s1 EXCEPT !.ResumptionHandle = <<"session_", s1.ID>>]
        st1 == Put(store, s2.ID, p)
        h1 == SessionAppend(Append(heap, s2), p, setupReq.val)
        resumptionUpdate ==
          [type |-> "session_resumption_update", handle |-> h1[p].ResumptionHandle]
    IN Result(p, s2.ID, h1, st1, <<resumptionUpdate>>, ~wok)

\* handleSetup that forgets Store.Put
handleSetup_noPut(c, m, wok) ==
  IF sess[c] # Nil
  THEN sendError(c, "already_setup", <<"Session already configured">>)
  ELSE
    LET setupReq == UnmarshalSetupRequest(m.data) IN
    IF setupReq.err
    THEN sendError(c, "bad_setup", <<"Invalid setup request format">>)
    ELSE
      LET p == Len(heap) + 1
          s0 == NewSession(setupReq.val.model)
          s1 == [s0 EXCEPT !.State = StateConfigured]
          s2 == [s1 EXCEPT !.ResumptionHandle = <<"session_", s1.ID>>]
          h1 == SessionAppend(Append(heap, s2), p, setupReq.val)
          resumptionUpdate ==
            [type |-> "session_resumption_update", handle |-> h1[p].ResumptionHandle]
      IN Result(p, s2.ID, h1, store, <<resumptionUpdate>>, ~wok)

\* handleSetup without *sessionID = (*sess).ID
handleSetup_noIDSlot(c, m, wok) ==
  IF sess[c] # Nil
  THEN sendError(c, "already_setup", <<"Session already configured">>)
  ELSE
    LET setupReq == UnmarshalSetupRequest(m.data) IN
    IF setupReq.err
    THEN sendError(c, "bad_setup", <<"Invalid setup request format">>)
    ELSE
      LET p == Len(heap) + 1
          s0 == NewSession(setupReq.val.model)
          s1 == [s0 EXCEPT !.State = StateConfigured]
          s2 == [s1 EXCEPT !.ResumptionHandle = <<"session_", s1.ID>>]
          st1 == Put(store, s2.ID, p)
          h1 == SessionAppend(Append(heap, s2), p, setupReq.val)
          resumptionUpdate ==
            [type |-> "session_resumption_update", handle |-> h1[p].ResumptionHandle]
      IN Result(p, sessionID[c], h1, st1, <<resumptionUpdate>>, ~wok)

\* handleSetup that decodes the payload before it looks at the session
handleSetup_decodesFirst(c, m, wok) ==
  LET setupReq == UnmarshalSetupRequest(m.data) IN
  IF setupReq.err
  THEN sendError(c, "bad_setup", <<"Invalid setup request format">>)
  ELSE IF sess[c] # Nil
  THEN sendError(c, "already_setup", <<"Session already configured">>)
  ELSE
    LET p == Len(heap) + 1
        s0 == NewSession(setupReq.val.model)
        s1 == [s0 EXCEPT !.State = StateConfigured]
        s2 == [s1 EXCEPT !.ResumptionHandle = <<"session_", s1.ID>>]
        st1 == Put(store, s2.ID, p)
        h1 == SessionAppend(Append(heap, s2), p, setupReq.val)
        resumptionUpdate ==
          [type |-> "session_resumption_update", handle |-> h1[p].ResumptionHandle]
    IN Result(p, s2.ID, h1, st1, <<resumptionUpdate>>, ~wok)

\* handleSetup that creates and stores the session before it decodes
handleSetup_createsFirst(c, m, wok) ==
  IF sess[c] # Nil
  THEN sendError(c, "already_setup", <<"Session already configured">>)
  ELSE
    LET setupReq == UnmarshalSetupRequest(m.data)
        p == Len(heap) + 1
        s0 == NewSession(setupReq.val.model)
        s1 == [s0 EXCEPT !.State = StateConfigured]
        s2 == [s1 EXCEPT !.ResumptionHandle = <<"session_", s1.ID>>]
        st1 == Put(store, s2.ID, p)
    IN
    IF setupReq.err
    THEN Result(p, s2.ID, Append(heap, s2), st1,
                <<ErrorJson("bad_setup", <<"Invalid setup request format">>)>>, FALSE)
    ELSE
      LET h1 == SessionAppend(Append(heap, s2), p, setupReq.val)
          resumptionUpdate ==
            [type |-> "session_resumption_update", handle |-> h1[p].ResumptionHandle]
      IN Result(p, s2.ID, h1, st1, <<resumptionUpdate>>, ~wok)

handleSetup(c, m, wok) ==
  IF sess[c] # Nil
  THEN sendError(c, "already_setup", <<"Session already configured">>)
  ELSE
    LET setupReq == UnmarshalSetupRequest(m.data) IN
    IF setupReq.err
    THEN sendError(c, "bad_setup", <<"Invalid setup request format">>)
    ELSE
      LET p == Len(heap) + 1
          s0 == NewSession(setupReq.val.model)
          s1 == [s0 EXCEPT !.State = StateConfigured]
          s2 == [s1 EXCEPT !.ResumptionHandle = <<"session_", s1.ID>>]
          st1 == Put(store, s2.ID, p)
          h1 == SessionAppend(Append(heap, s2), p, setupReq.val)
          resumptionUpdate ==
            [type |-> "session_resumption_update", handle |-> h1[p].ResumptionHandle]
      IN Result(p, s2.ID, h1, st1, <<resumptionUpdate>>, ~wok)

\* handleInputText that validates the payload before it looks for a session
handleInputText_parsesFirst(c, m, wok) ==
  LET textInput == UnmarshalClientInputText(m.data) IN
  IF textInput.err
  THEN sendError(c, "bad_json", <<"Invalid text input format">>)
  ELSE IF sess[c] = Nil
  THEN sendError(c, "no_session", <<"No active session">>)
  ELSE
    LET h1 == SessionAppend(SetState(heap, sess[c], StateActive), sess[c],
                            textInput.val)
        echoResponse ==
          [type |-> "output_text", text |-> <<"[echo] ">> \o textInput.val.text,
           final |-> TRUE]
    IN Result(sess[c], sessionID[c], h1, store, <<echoResponse>>, ~wok)

\* handleInputText that answers with a fixed text
handleInputText_fixedEcho(c, m, wok) ==
  IF sess[c] = Nil
  THEN sendError(c, "no_session", <<"No active session">>)
  ELSE
    LET textInput == UnmarshalClientInputText(m.data) IN
    IF textInput.err
    THEN sendError(c, "bad_json", <<"Invalid text input format">>)
    ELSE
      LET h1 == SessionAppend(SetState(heap, sess[c], StateActive), sess[c],
                              textInput.val)
          echoResponse ==
            [type |-> "output_text", text |-> <<"[echo] ", "hi">>, final |-> TRUE]
      IN Result(sess[c], sessionID[c], h1, store, <<echoResponse>>, ~wok)

handleInputText(c, m, wok) ==
  IF sess[c] = Nil
  THEN sendError(c, "no_session", <<"No active session">>)
  ELSE
    LET textInput == UnmarshalClientInputText(m.data) IN
    IF textInput.err
    THEN sendError(c, "bad_json", <<"Invalid text input format">>)
    ELSE
      LET h1 == SessionAppend(SetState(heap, sess[c], StateActive), sess[c],
                              textInput.val)
          echoResponse ==
            [type |-> "output_text", text |-> <<"[echo] ">> \o textInput.val.text,
             final |-> TRUE]
      IN Result(sess[c], sessionID[c], h1, store, <<echoResponse>>, ~wok)

\* handleInputAudio that sets the state before it validates the payload
handleInputAudio_mutatesFirst(c, m, wok) ==
  IF sess[c] = Nil
  THEN sendError(c, "no_session", <<"No active session">>)
  ELSE
    LET audioInput == UnmarshalClientInputAudio(m.data)
        h0 == SetState(heap, sess[c], StateActive)
    IN
    IF audioInput.err
    THEN Result(sess[c], sessionID[c], h0, store,
                <<ErrorJson("bad_json", <<"Invalid audio input format">>)>>, FALSE)
    ELSE
      LET h1 == SessionAppend(h0, sess[c], audioInput.val)
          ackResponse ==
            [type |-> "output_text",
             text |-> <<"Received audio chunk in ", audioInput.val.format,
                        " format (final: ", FormatBool(audioInput.val.final), ")">>,
             final |-> TRUE]
      IN Result(sess[c], sessionID[c], h1, store, <<ackResponse>>, ~wok)

\* handleInputAudio that always reports the chunk as final
handleInputAudio_alwaysFinal(c, m, wok) ==
  IF sess[c] = Nil
  THEN sendError(c, "no_session", <<"No active session">>)
  ELSE
    LET audioInput == UnmarshalClientInputAudio(m.data) IN
    IF audioInput.err
    THEN sendError(c, "bad_json", <<"Invalid audio input format">>)
    ELSE
      LET h1 == SessionAppend(SetState(heap, sess[c], StateActive), sess[c],
                              audioInput.val)
          ackResponse ==
            [type |-> "output_text",
             text |-> <<"Received audio chunk in ", audioInput.val.format,
                        " format (final: ", "true", ")">>,
             final |-> TRUE]
      IN Result(sess[c], sessionID[c], h1, store, <<ackResponse>>, ~wok)

handleInputAudio(c, m, wok) ==
  IF sess[c] = Nil
  THEN sendError(c, "no_session", <<"No active session">>)
  ELSE
    LET audioInput == UnmarshalClientInputAudio(m.data) IN
    IF audioInput.err
    THEN sendError(c, "bad_json", <<"Invalid audio input format">>)
    ELSE
      LET h1 == SessionAppend(SetState(heap, sess[c], StateActive), sess[c],
                              audioInput.val)
          ackResponse ==
            [type |-> "output_text",
             text |-> <<"Received audio chunk in ", audioInput.val.format,
                        " format (final: ", FormatBool(audioInput.val.final), ")">>,
             final |-> TRUE]
      IN Result(sess[c], sessionID[c], h1, store, <<ackResponse>>, ~wok)

\* handleToolResult that puts the session back to Configured
handleToolResult_resetsState(c, m, wok) ==
  IF sess[c] = Nil
  THEN sendError(c, "no_session", <<"No active session">>)
  ELSE
    LET toolResult == UnmarshalToolResult(m.data) IN
    IF toolResult.err
    THEN sendError(c, "bad_json", <<"Invalid tool result format">>)
    ELSE Result(sess[c], sessionID[c],
                SessionAppend(SetState(heap, sess[c], StateConfigured), sess[c],
                              toolResult.val),
                store, <<>>, FALSE)

\* handleToolResult that acknowledges the result with a frame
handleToolResult_acks(c, m, wok) ==
  IF sess[c] = Nil
  THEN sendError(c, "no_session", <<"No active session">>)
  ELSE
    LET toolResult == UnmarshalToolResult(m.data) IN
    IF toolResult.err
    THEN sendError(c, "bad_json", <<"Invalid tool result format">>)
    ELSE Result(sess[c], sessionID[c], SessionAppend(heap, sess[c], toolResult.val),
                store,
                <<[type |-> "output_text", text |-> <<"Tool result received">>,
                   final |-> TRUE]>>,
                ~wok)

\* handleToolResult that validates the result and forgets to log it
handleToolResult_noAppend(c, m, wok) ==
  IF sess[c] = Nil
  THEN sendError(c, "no_session", <<"No active session">>)
  ELSE
    LET toolResult == UnmarshalToolResult(m.data) IN
    IF toolResult.err
    THEN sendError(c, "bad_json", <<"Invalid tool result format">>)
    ELSE Result(sess[c], sessionID[c], heap, store, <<>>, FALSE)

handleToolResult(c, m, wok) ==
  IF sess[c] = Nil
  THEN sendError(c, "no_session", <<"No active session">>)
  ELSE
    LET toolResult == UnmarshalToolResult(m.data) IN
    IF toolResult.err
    THEN sendError(c, "bad_json", <<"Invalid tool result format">>)
    ELSE Result(sess[c], sessionID[c], SessionAppend(heap, sess[c], toolResult.val),
                store, <<>>, FALSE)

\* handleEndSession that returns as soon as the write of the goodbye fails,
\* as the other handlers do
handleEndSession_returnsOnWriteError(c, m, wok) ==
  IF sess[c] = Nil
  THEN sendError(c, "no_session", <<"No active session">>)
  ELSE
    LET endSession == UnmarshalSessionEnd(m.data) IN
    IF endSession.err
    THEN sendError(c, "bad_json", <<"Invalid session end format">>)
    ELSE
      LET h1 == SessionAppend(SetState(heap, sess[c], StateClosing), sess[c],
                              endSession.val)
          goodbyeResponse ==
            [type |-> "output_text", text |-> <<"Goodbye! Session ended.">>,
             final |-> TRUE]
          h2 == SetState(h1, sess[c], StateClosed)
      IN IF wok
         THEN Result(sess[c], sessionID[c], h2, Delete(store, sessionID[c]),
                     <<goodbyeResponse>>, TRUE)
         ELSE Result(sess[c], sessionID[c], h1, store, <<goodbyeResponse>>, TRUE)

\* handleEndSession that returns false, so that the loop goes on
handleEndSession_continues(c, m, wok) ==
  IF sess[c] = Nil
  THEN sendError(c, "no_session", <<"No active session">>)
  ELSE
    LET endSession == UnmarshalSessionEnd(m.data) IN
    IF endSession.err
    THEN sendError(c, "bad_json", <<"Invalid session end format">>)
    ELSE
      LET h1 == SessionAppend(SetState(heap, sess[c], StateClosing), sess[c],
                              endSession.val)
          goodbyeResponse ==
            [type |-> "output_text", text |-> <<"Goodbye! Session ended.">>,
             final |-> TRUE]
          h2 == SetState(h1, sess[c], StateClosed)
      IN Result(sess[c], sessionID[c], h2, Delete(store, sessionID[c]),
                <<goodbyeResponse>>, FALSE)

\* handleEndSession that forgets Store.Delete
handleEndSession_noDelete(c, m, wok) ==
  IF sess[c] = Nil
  THEN sendError(c, "no_session", <<"No active session">>)
  ELSE
    LET endSession == UnmarshalSessionEnd(m.data) IN
    IF endSession.err
    THEN sendError(c, "bad_json", <<"Invalid session end format">>)
    ELSE
      LET h1 == SessionAppend(SetState(heap, sess[c], StateClosing), sess[c],
                              endSession.val)
          goodbyeResponse ==
            [type |-> "output_text", text |-> <<"Goodbye! Session ended.">>,
             final |-> TRUE]
          h2 == SetState(h1, sess[c], StateClosed)
      IN Result(sess[c], sessionID[c], h2, store, <<goodbyeResponse>>, TRUE)

handleEndSession(c, m, wok) ==
  IF sess[c] = Nil
  THEN sendError(c, "no_session", <<"No active session">>)
  ELSE
    LET endSession == UnmarshalSessionEnd(m.data) IN
    IF endSession.err
    THEN sendError(c, "bad_json", <<"Invalid session end format">>)
    ELSE
      LET h1 == SessionAppend(SetState(heap, sess[c], StateClosing), sess[c],
                              endSession.val)
          goodbyeResponse ==
            [type |-> "output_text", text |-> <<"Goodbye! Session ended.">>,
             final |-> TRUE]
          h2 == SetState(h1, sess[c], StateClosed)
      IN Result(sess[c], sessionID[c], h2, Delete(store, sessionID[c]),
                <<goodbyeResponse>>, TRUE)

\* handleMessage whose default branch asks for a session first
handleMessage_sessionFirst(c, msgType, m, wok) ==
  CASE msgType = "setup" -> handleSetup(c, m, wok)
    [] msgType = "input_text" -> handleInputText(c, m, wok)
    [] msgType = "input_audio" -> handleInputAudio(c, m, wok)
    [] msgType = "tool_result" -> handleToolResult(c, m, wok)
    [] msgType = "end_session" -> handleEndSession(c, m, wok)
    [] OTHER ->
         IF sess[c] = Nil
         THEN sendError(c, "no_session", <<"No active session">>)
         ELSE sendError(c, "unknown_type", <<"Unknown message type: ", msgType>>)

handleMessage(c, msgType, m, wok) ==
  CASE msgType = "setup" -> handleSetup(c, m, wok)
    [] msgType = "input_text" -> handleInputText(c, m, wok)
    [] msgType = "input_audio" -> handleInputAudio(c, m, wok)
    [] msgType = "tool_result" -> handleToolResult(c, m, wok)
    [] msgType = "end_session" -> handleEndSession(c, m, wok)
    [] OTHER -> sendError(c, "unknown_type", <<"Unknown message type: ", msgType>>)

\* the body of the loop without the continue after the opcode's error: the
\* iteration goes on to decode the frame
loopBody_noContinue(c, m, wok) ==
  LET env == UnmarshalEnvelope(m.data)
      rest == IF env.err
              THEN sendError(c, "bad_json", <<"Invalid JSON format">>)
              ELSE handleMessage(c, env.Type, m, wok)
  IN IF m.op # "text"
     THEN [rest EXCEPT !.writes =
             <<ErrorJson("bad_json", <<"Only text messages are supported">>)>> \o @]
     ELSE rest

\* the body of the loop without the check of the frame's opcode
loopBody_noOpCheck(c, m, wok) ==
  LET env == UnmarshalEnvelope(m.data) IN
  IF env.err
  THEN sendError(c, "bad_json", <<"Invalid JSON format">>)
  ELSE handleMessage(c, env.Type, m, wok)

\* the body of the loop of handleSpeakWS after a frame has been read
loopBody(c, m, wok) ==
  IF m.op # "text"
  THEN sendError(c, "bad_json", <<"Only text messages are supported">>)
  ELSE
    LET env == UnmarshalEnvelope(m.data) IN
    IF env.err
    THEN sendError(c, "bad_json", <<"Invalid JSON format">>)
    ELSE handleMessage(c, env.Type, m, wok)


\* ------------------------------------------------------------ the program
RECURSIVE SumTo(_, _)
SumTo(f, n) == IF n = 0 THEN 0 ELSE f[n] + SumTo(f, n - 1)
TotalRead == SumTo(nread, NumConns)

NoWrite == [frame |-> [type |-> "none"], ok |-> TRUE, req |-> 0]

\* the zero value of sync.RWMutex, and callers that are in no Store call
NoCall == [op |-> "none", id |-> NoID, ent |-> Nil]
NoResult == [session |-> Nil, exists |-> FALSE]

InitReg ==
  /\ mu = [writer |-> 0, pending |-> 0, readers |-> {}]
  /\ spc = [c \in Conns |-> "idle"]
  /\ call = [c \in Conns |-> NoCall]
  /\ tmp = [c \in Conns |-> EmptyStore]
  /\ got = [c \in Conns |-> NoResult]
  /\ ncalls = 0
  /\ abs = {}
  /\ gone = {}

\* no Append call in progress
NoAppend == [p |-> Nil, message |-> [type |-> "none"]]

InitApp ==
  /\ smu = {}
  /\ apc = [c \in Conns |-> "idle"]
  /\ acall = [c \in Conns |-> NoAppend]
  /\ atmp = [c \in Conns |-> <<>>]
  /\ asent = [c \in Conns |-> 0]

Init ==
  /\ pc = [c \in Conns |-> "select"]
  /\ cancelled = FALSE
  /\ msg = [c \in Conns |-> NoFrame]
  /\ lateRead = [c \in Conns |-> FALSE]
  /\ sess = [c \in Conns |-> Nil]
  /\ sessionID = [c \in Conns |-> NoID]
  /\ heap = <<>>
  /\ store = EmptyStore
  /\ nwritten = [c \in Conns |-> 0]
  /\ lastWrite = [c \in Conns |-> NoWrite]
  /\ nread = [c \in Conns |-> 0]
  /\ closes = [c \in Conns |-> 0]
  /\ nrejected = 0
  /\ InitReg
  /\ InitApp

\* handleSpeakWS returns without closing the connection
Return_noClose(c) ==
  /\ pc' = [pc EXCEPT ![c] = "closed"]
  /\ UNCHANGED closes

\* handleSpeakWS returns: the deferred conn.Close() runs (the deferred
\* cancel() ends a scope that nothing reads any more)
Return(c) ==
  /\ pc' = [pc EXCEPT ![c] = "closed"]
  /\ closes' = [closes EXCEPT ![c] = @ + 1]

\* the lifetime scopes are cancelled from outside: the context of the server
\* that every r.Context() derives from is cancelled (shutdown)
Cancel ==
  /\ ~cancelled
  /\ cancelled' = TRUE
  /\ UNCHANGED <<pc, msg, lateRead, sess, sessionID, heap, store, nwritten,
               lastWrite, nread, closes, nrejected>>
  /\ UNCHANGED regVars
  /\ UNCHANGED appVars

\* a loop without the select on ctx.Done(): it goes straight to the read
Select_noCheck(c) ==
  /\ pc[c] = "select"
  /\ pc' = [pc EXCEPT ![c] = "read"]
  /\ UNCHANGED closes
  /\ UNCHANGED <<cancelled, msg, lateRead, sess, sessionID, heap, store, nwritten,
               lastWrite, nread, nrejected>>
  /\ UNCHANGED regVars
  /\ UNCHANGED appVars

\* top of the loop: select on ctx.Done() with a default branch
Select(c) ==
  /\ pc[c] = "select"
  /\ IF cancelled
     THEN Return(c)
     ELSE /\ pc' = [pc EXCEPT ![c] = "read"]
          /\ UNCHANGED closes
  /\ UNCHANGED <<cancelled, msg, lateRead, sess, sessionID, heap, store, nwritten,
               lastWrite, nread, nrejected>>
  /\ UNCHANGED regVars
  /\ UNCHANGED appVars

\* the code answers frame f on connection c with an error frame
Rejects(c, f) ==
  LET w == loopBody(c, f, TRUE).writes IN
  w # <<>> /\ w[Len(w)].type = "error"

\* a read that does not wait for the handler of the frame before
ReadFrame_early(c) ==
  /\ pc[c] \in {"read", "dispatch"}
  /\ \E f \in FrameSet :
       /\ TotalRead + nrejected + (IF Rejects(c, f) THEN 2 ELSE 1) <= MaxFrames
       /\ msg' = [msg EXCEPT ![c] = f]
       /\ nrejected' = IF Rejects(c, f) THEN nrejected + 1 ELSE nrejected
  /\ lateRead' = [lateRead EXCEPT ![c] = cancelled]
  /\ nread' = [nread EXCEPT ![c] = @ + 1]
  /\ pc' = [pc EXCEPT ![c] = "dispatch"]
  /\ UNCHANGED <<cancelled, sess, sessionID, heap, store, nwritten, lastWrite,
               closes>>
  /\ UNCHANGED regVars
  /\ UNCHANGED appVars

\* wsutil.ReadClientData returns a frame. MaxFrames bounds the frames that
\* all clients send, a frame that is rejected counting twice.
ReadFrame(c) ==
  /\ pc[c] = "read"
  /\ \E f \in FrameSet :
       /\ TotalRead + nrejected + (IF Rejects(c, f) THEN 2 ELSE 1) <= MaxFrames
       /\ msg' = [msg EXCEPT ![c] = f]
       /\ nrejected' = IF Rejects(c, f) THEN nrejected + 1 ELSE nrejected
  /\ lateRead' = [lateRead EXCEPT ![c] = cancelled]
  /\ nread' = [nread EXCEPT ![c] = @ + 1]
  /\ pc' = [pc EXCEPT ![c] = "dispatch"]
  /\ UNCHANGED <<cancelled, sess, sessionID, heap, store, nwritten, lastWrite,
               closes>>
  /\ UNCHANGED regVars
  /\ UNCHANGED appVars

\* a failed read that is reported to the client with an error frame
ReadError_sendsError(c) ==
  /\ pc[c] = "read"
  /\ Return(c)
  /\ nwritten' = [nwritten EXCEPT ![c] = @ + 1]
  /\ lastWrite' = [lastWrite EXCEPT ![c] =
       [frame |-> ErrorJson("bad_json", <<"Failed to read message">>),
        ok |-> FALSE, req |-> nread[c]]]
  /\ UNCHANGED <<cancelled, msg, lateRead, sess, sessionID, heap, store,
               nread, nrejected>>
  /\ UNCHANGED regVars
  /\ UNCHANGED appVars

\* wsutil.ReadClientData fails (the peer closed, or the transport broke)
ReadError(c) ==
  /\ pc[c] = "read"
  /\ Return(c)
  /\ UNCHANGED <<cancelled, msg, lateRead, sess, sessionID, heap, store, nwritten,
               lastWrite, nread, nrejected>>
  /\ UNCHANGED regVars
  /\ UNCHANGED appVars

\* the last write after the handler passed the frames w to writeJSON
Written(c, w, wok) ==
  IF w = <<>> THEN lastWrite[c]
  ELSE [frame |-> w[Len(w)], ok |-> wok, req |-> nread[c]]

\* wsutil.WriteServerMessage on the connection: it succeeds or fails, and no
\* write succeeds after one has failed (the code sets no deadline, so a
\* write error of the transport is permanent)
WriteOutcomes(c) ==
  IF lastWrite[c].ok THEN BOOLEAN ELSE {FALSE}

\* the rest of the iteration: decode, route, handle, write; wok is whether
\* the transport accepts the write. msg and op go out of scope at the end of
\* the iteration.
Dispatch(c) ==
  /\ pc[c] = "dispatch"
  /\ \E wok \in WriteOutcomes(c) :
       LET r == loopBody(c, msg[c], wok) IN
       /\ sess' = [sess EXCEPT ![c] = r.sess]
       /\ sessionID' = [sessionID EXCEPT ![c] = r.sessionID]
       /\ heap' = r.heap
       /\ store' = r.store
       /\ nwritten' = [nwritten EXCEPT ![c] = @ + Len(r.writes)]
       /\ lastWrite' = [lastWrite EXCEPT ![c] = Written(c, r.writes, wok)]
       /\ IF r.ret
          THEN Return(c)
          ELSE /\ pc' = [pc EXCEPT ![c] = "select"]
               /\ UNCHANGED closes
  /\ msg' = [msg EXCEPT ![c] = NoFrame]
  /\ lateRead' = [lateRead EXCEPT ![c] = FALSE]
  /\ UNCHANGED <<cancelled, nread, nrejected>>
  /\ UNCHANGED regVars
  /\ UNCHANGED appVars

\* mustJSON panics inside writeJSON (json.Marshal returned an error): the
\* handler unwinds with what it had assigned before the write, nothing is
\* written, and the deferred conn.Close() runs. Only handleEndSession assigns
\* after its write (State = Closed, Store.Delete).
Panic(c) ==
  /\ pc[c] = "dispatch"
  /\ LET r == loopBody(c, msg[c], TRUE) IN
       /\ r.writes # <<>>
       /\ sess' = [sess EXCEPT ![c] = r.sess]
       /\ sessionID' = [sessionID EXCEPT ![c] = r.sessionID]
       /\ heap' = IF r.ret THEN SetState(r.heap, sess[c], StateClosing) ELSE r.heap
       /\ store' = IF r.ret THEN store ELSE r.store
  /\ Return(c)
  /\ msg' = [msg EXCEPT ![c] = NoFrame]
  /\ lateRead' = [lateRead EXCEPT ![c] = FALSE]
  /\ UNCHANGED <<cancelled, nwritten, lastWrite, nread, nrejected>>
  /\ UNCHANGED regVars
  /\ UNCHANGED appVars

Next ==
  \/ Cancel
  \/ \E c \in Conns :
    \/ Select(c)
    \/ ReadFrame(c)
    \/ ReadError(c)
    \/ Dispatch(c)

Spec == Init /\ [][Next]_vars

\* the same program when json.Marshal can fail on a response value
NextPanic ==
  \/ Next
  \/ \E c \in Conns : Panic(c)

SpecPanic == Init /\ [][NextPanic]_vars

\* ------------------------------------------------------ concurrent flows
\* TestConcurrentSessions: every client sends setup, one input_text with a
\* text of its own, and end_session, each after the answer to the previous
\* one; the connections run concurrently.
FlowText(c) == <<"Hello from connection ", c>>

Script(c) ==
  <<SetupFrame("gemini-1.5-flash"), InputTextFrame(FlowText(c)), EndSessionFrame>>

\* wsutil.ReadClientData returns the next frame of the client's script
ReadScript(c) ==
  /\ pc[c] = "read"
  /\ nread[c] < Len(Script(c))
  /\ msg' = [msg EXCEPT ![c] = Script(c)[nread[c] + 1]]
  /\ lateRead' = [lateRead EXCEPT ![c] = cancelled]
  /\ nread' = [nread EXCEPT ![c] = @ + 1]
  /\ pc' = [pc EXCEPT ![c] = "dispatch"]
  /\ UNCHANGED <<cancelled, sess, sessionID, heap, store, nwritten, lastWrite,
               closes, nrejected>>
  /\ UNCHANGED regVars
  /\ UNCHANGED appVars

NextFlows ==
  \E c \in Conns :
    \/ Select(c)
    \/ ReadScript(c)
    \/ Dispatch(c)

SpecFlows == Init /\ [][NextFlows]_vars

\* ------------------------------------------------------- the input frames
\* The clients send setup and then inputs of every kind: the texts of the
\* tests, audio chunks of every format with either final flag and of formats
\* that are not in the enumeration, and binary frames, also ones whose
\* payload would be a valid message in a text frame.
InputTexts == {"hi", "Hello, world!"}
OtherFormats == {"invalid", "mp3"}

InputFrames ==
  {SetupFrame("gemini-1.5-flash")}
  \cup {InputTextFrame(t) : t \in InputTexts}
  \cup {InputAudioFrame(f, fin) :
          f \in AudioFormats \cup OtherFormats, fin \in {"true", "false"}}
  \cup {BinaryFrame,
        [op |-> "binary", data |-> SetupFrame("gemini-1.5-flash").data],
        [op |-> "binary", data |-> InputTextFrame("hi").data]}

\* wsutil.ReadClientData returns one of these frames, within the budget of
\* ReadFrame
ReadInput(c) ==
  /\ pc[c] = "read"
  /\ \E f \in InputFrames :
       /\ TotalRead + nrejected + (IF Rejects(c, f) THEN 2 ELSE 1) <= MaxFrames
       /\ msg' = [msg EXCEPT ![c] = f]
       /\ nrejected' = IF Rejects(c, f) THEN nrejected + 1 ELSE nrejected
  /\ lateRead' = [lateRead EXCEPT ![c] = cancelled]
  /\ nread' = [nread EXCEPT ![c] = @ + 1]
  /\ pc' = [pc EXCEPT ![c] = "dispatch"]
  /\ UNCHANGED <<cancelled, sess, sessionID, heap, store, nwritten, lastWrite,
               closes>>
  /\ UNCHANGED regVars
  /\ UNCHANGED appVars

NextInputs ==
  \E c \in Conns :
    \/ Select(c)
    \/ ReadInput(c)
    \/ Dispatch(c)

SpecInputs == Init /\ [][NextInputs]_vars

\* ------------------------------------------------- the Store under its lock
\* Callers (the connections' goroutines, or a test's) call Put, Get and
\* Delete on one Store concurrently. A call is its lock, its map access and
\* its deferred unlock. An assignment to a Go map is not atomic: it is the
\* step that finds the map and the step that leaves it changed; a read that
\* overlaps an assignment is a data race and may return anything.

\* a session as a test builds it for the store
StoreSession(id) ==
  [ID |-> id, Model |-> "test-model", State |-> StateConnecting,
   ResumptionHandle |-> <<>>, Log |-> <<>>]

\* the sessions the callers put; the third has the identifier of the first
StoreHeap == <<StoreSession(1), StoreSession(2), StoreSession(1)>>
Entities == 1..Len(StoreHeap)
StoreIDs == {StoreHeap[p].ID : p \in Entities}

\* the contents a Store can have when the calls begin
StoreContents ==
  UNION {{m \in [D -> Entities] : \A id \in D : StoreHeap[m[id]].ID = id} :
         D \in SUBSET StoreIDs}

AsPairs(st) == {<<id, st[id]>> : id \in DOMAIN st}

StoreCalls ==
  {[op |-> "put", id |-> StoreHeap[p].ID, ent |-> p] : p \in Entities}
  \cup {[op |-> o, id |-> id, ent |-> Nil] : o \in {"get", "delete"}, id \in StoreIDs}

InitStore ==
  /\ pc = [c \in Conns |-> "closed"]
  /\ cancelled = FALSE
  /\ msg = [c \in Conns |-> NoFrame]
  /\ lateRead = [c \in Conns |-> FALSE]
  /\ sess = [c \in Conns |-> Nil]
  /\ sessionID = [c \in Conns |-> NoID]
  /\ heap = StoreHeap
  /\ store \in StoreContents
  /\ nwritten = [c \in Conns |-> 0]
  /\ lastWrite = [c \in Conns |-> NoWrite]
  /\ nread = [c \in Conns |-> 0]
  /\ closes = [c \in Conns |-> 0]
  /\ nrejected = 0
  /\ mu = [writer |-> 0, pending |-> 0, readers |-> {}]
  /\ spc = [c \in Conns |-> "idle"]
  /\ call = [c \in Conns |-> NoCall]
  /\ tmp = [c \in Conns |-> EmptyStore]
  /\ got = [c \in Conns |-> NoResult]
  /\ ncalls = 0
  /\ abs = AsPairs(store)
  /\ gone = {}
  /\ InitApp

\* Get takes the lock with RLock, Put and Delete with Lock
LockMode_allRead(op) == "R"

LockMode(op) == IF op = "get" THEN "R" ELSE "W"

\* RLock that also waits for the readers to leave
CanRLock_exclusive(m) == m.writer = 0 /\ m.pending = 0 /\ m.readers = {}

\* RWMutex.RLock returns when no writer holds the lock or has called Lock
CanRLock(m) == m.writer = 0 /\ m.pending = 0

\* RWMutex.Lock: one writer at a time gets past the writers' mutex and
\* announces itself; it has the lock when the readers have left
CanLock(m) == m.writer = 0 /\ m.pending = 0

\* a caller begins a call
StoreCall(c) ==
  /\ spc[c] = "idle"
  /\ ncalls < MaxCalls
  /\ \E k \in StoreCalls : call' = [call EXCEPT ![c] = k]
  /\ spc' = [spc EXCEPT ![c] = "lock"]
  /\ ncalls' = ncalls + 1
  /\ UNCHANGED <<mu, tmp, got, abs, gone, heap, store>>
  /\ UNCHANGED connVars
  /\ UNCHANGED appVars

\* s.mu.RLock()
RLock(c) ==
  /\ spc[c] = "lock"
  /\ LockMode(call[c].op) = "R"
  /\ CanRLock(mu)
  /\ mu' = [mu EXCEPT !.readers = @ \cup {c}]
  /\ spc' = [spc EXCEPT ![c] = "cs"]
  /\ UNCHANGED <<call, tmp, got, ncalls, abs, gone, heap, store>>
  /\ UNCHANGED connVars
  /\ UNCHANGED appVars

\* s.mu.Lock(), until it has announced itself to the readers
Lock(c) ==
  /\ spc[c] = "lock"
  /\ LockMode(call[c].op) = "W"
  /\ CanLock(mu)
  /\ mu' = [mu EXCEPT !.pending = c]
  /\ spc' = [spc EXCEPT ![c] = "wait"]
  /\ UNCHANGED <<call, tmp, got, ncalls, abs, gone, heap, store>>
  /\ UNCHANGED connVars
  /\ UNCHANGED appVars

\* s.mu.Lock() returns: the readers have left
LockAcquired(c) ==
  /\ spc[c] = "wait"
  /\ mu.readers = {}
  /\ mu' = [mu EXCEPT !.pending = 0, !.writer = c]
  /\ spc' = [spc EXCEPT ![c] = "cs"]
  /\ UNCHANGED <<call, tmp, got, ncalls, abs, gone, heap, store>>
  /\ UNCHANGED connVars
  /\ UNCHANGED appVars

\* some caller is in the middle of an assignment to the map
Writing == \E d \in Conns : spc[d] = "store"

Results ==
  {[session |-> p, exists |-> TRUE] : p \in Entities} \cup {NoResult}

\* Get: session, exists := s.sessions[id]
GetRead(c) ==
  /\ spc[c] = "cs"
  /\ call[c].op = "get"
  /\ \E r \in (IF Writing THEN Results ELSE {Get(store, call[c].id)}) :
       got' = [got EXCEPT ![c] = r]
  /\ spc' = [spc EXCEPT ![c] = "unlock"]
  /\ UNCHANGED <<mu, call, tmp, ncalls, abs, gone, heap, store>>
  /\ UNCHANGED connVars
  /\ UNCHANGED appVars

\* Put, Delete: the assignment begins on the map as it is
WriteBegin(c) ==
  /\ spc[c] = "cs"
  /\ call[c].op \in {"put", "delete"}
  /\ tmp' = [tmp EXCEPT ![c] = store]
  /\ spc' = [spc EXCEPT ![c] = "store"]
  /\ UNCHANGED <<mu, call, got, ncalls, abs, gone, heap, store>>
  /\ UNCHANGED connVars
  /\ UNCHANGED appVars

\* Put: s.sessions[session.ID] = session is done
PutEnd(c) ==
  /\ spc[c] = "store"
  /\ call[c].op = "put"
  /\ store' = Put(tmp[c], heap[call[c].ent].ID, call[c].ent)
  /\ abs' = {q \in abs : q[1] # call[c].id} \cup {<<call[c].id, call[c].ent>>}
  /\ gone' = gone \ {call[c].id}
  /\ spc' = [spc EXCEPT ![c] = "unlock"]
  /\ UNCHANGED <<mu, call, tmp, got, ncalls, heap>>
  /\ UNCHANGED connVars
  /\ UNCHANGED appVars

\* Delete: delete(s.sessions, id) is done
DeleteEnd(c) ==
  /\ spc[c] = "store"
  /\ call[c].op = "delete"
  /\ store' = Delete(tmp[c], call[c].id)
  /\ abs' = {q \in abs : q[1] # call[c].id}
  /\ gone' = gone \cup {call[c].id}
  /\ spc' = [spc EXCEPT ![c] = "unlock"]
  /\ UNCHANGED <<mu, call, tmp, got, ncalls, heap>>
  /\ UNCHANGED connVars
  /\ UNCHANGED appVars

\* Put, Get or Delete returns without unlocking
Unlock_forgotten(c) ==
  /\ spc[c] = "unlock"
  /\ spc' = [spc EXCEPT ![c] = "idle"]
  /\ call' = [call EXCEPT ![c] = NoCall]
  /\ tmp' = [tmp EXCEPT ![c] = EmptyStore]
  /\ got' = [got EXCEPT ![c] = NoResult]
  /\ UNCHANGED <<mu, ncalls, abs, gone, heap, store>>
  /\ UNCHANGED connVars
  /\ UNCHANGED appVars

\* the deferred s.mu.RUnlock() or s.mu.Unlock(), and the call returns
Unlock(c) ==
  /\ spc[c] = "unlock"
  /\ mu' = IF LockMode(call[c].op) = "R"
            THEN [mu EXCEPT !.readers = @ \ {c}]
            ELSE [mu EXCEPT !.writer = 0]
  /\ spc' = [spc EXCEPT ![c] = "idle"]
  /\ call' = [call EXCEPT ![c] = NoCall]
  /\ tmp' = [tmp EXCEPT ![c] = EmptyStore]
  /\ got' = [got EXCEPT ![c] = NoResult]
  /\ UNCHANGED <<ncalls, abs, gone, heap, store>>
  /\ UNCHANGED connVars
  /\ UNCHANGED appVars

NextStore ==
  \E c \in Conns :
    \/ StoreCall(c)
    \/ RLock(c)
    \/ Lock(c)
    \/ LockAcquired(c)
    \/ GetRead(c)
    \/ WriteBegin(c)
    \/ PutEnd(c)
    \/ DeleteEnd(c)
    \/ Unlock(c)

SpecStore == InitStore /\ [][NextStore]_vars

TypeOK ==
  /\ pc \in [Conns -> {"select", "read", "dispatch", "closed"}]
  /\ cancelled \in BOOLEAN
  /\ sess \in [Conns -> 0..Len(heap)]
  /\ Len(heap) <= NumConns


\* ---------------------------------------------- Append under its mutex
\* Several callers call Append on sessions concurrently
\* (TestSessionAppendConcurrency: on one session). A call is s.mu.Lock(),
\* s.Log = append(s.Log, message), which reads the log and then leaves it
\* one entry longer, and the deferred s.mu.Unlock().

\* the j-th message of goroutine c in the test
TestMessage(c, j) == [type |-> "test", goroutine |-> c, message |-> j]

InitAppend ==
  /\ pc = [c \in Conns |-> "closed"]
  /\ cancelled = FALSE
  /\ msg = [c \in Conns |-> NoFrame]
  /\ lateRead = [c \in Conns |-> FALSE]
  /\ sess = [c \in Conns |-> Nil]
  /\ sessionID = [c \in Conns |-> NoID]
  /\ heap = <<StoreSession(1)>>
  /\ store = EmptyStore
  /\ nwritten = [c \in Conns |-> 0]
  /\ lastWrite = [c \in Conns |-> NoWrite]
  /\ nread = [c \in Conns |-> 0]
  /\ closes = [c \in Conns |-> 0]
  /\ nrejected = 0
  /\ InitReg
  /\ InitApp

\* a goroutine of the test calls session.Append(message)
AppendCall(c) ==
  /\ apc[c] = "idle"
  /\ SumTo(asent, NumConns) < MaxAppends
  /\ acall' = [acall EXCEPT ![c] = [p |-> 1, message |-> TestMessage(c, asent[c])]]
  /\ asent' = [asent EXCEPT ![c] = @ + 1]
  /\ apc' = [apc EXCEPT ![c] = "lock"]
  /\ UNCHANGED <<smu, atmp, heap, store>>
  /\ UNCHANGED connVars
  /\ UNCHANGED regVars

\* Append that does not wait for the mutex
SessionFree_always(m, p) == TRUE

\* sync.Mutex: Lock returns when no caller holds the mutex of session p
SessionFree(m, p) == ~\E q \in m : q[1] = p

\* s.mu.Lock()
AppendLock(c) ==
  /\ apc[c] = "lock"
  /\ SessionFree(smu, acall[c].p)
  /\ smu' = smu \cup {<<acall[c].p, c>>}
  /\ apc' = [apc EXCEPT ![c] = "cs"]
  /\ UNCHANGED <<acall, atmp, asent, heap, store>>
  /\ UNCHANGED connVars
  /\ UNCHANGED regVars

\* append(s.Log, message) reads s.Log
AppendBegin(c) ==
  /\ apc[c] = "cs"
  /\ atmp' = [atmp EXCEPT ![c] = heap[acall[c].p].Log]
  /\ apc' = [apc EXCEPT ![c] = "store"]
  /\ UNCHANGED <<smu, acall, asent, heap, store>>
  /\ UNCHANGED connVars
  /\ UNCHANGED regVars

\* s.Log = the log read, with the message at its end
AppendEnd(c) ==
  /\ apc[c] = "store"
  /\ heap' = SessionAppend([heap EXCEPT ![acall[c].p].Log = atmp[c]],
                           acall[c].p, acall[c].message)
  /\ apc' = [apc EXCEPT ![c] = "unlock"]
  /\ UNCHANGED <<smu, acall, atmp, asent, store>>
  /\ UNCHANGED connVars
  /\ UNCHANGED regVars

\* Append returns without unlocking
AppendUnlock_forgotten(c) ==
  /\ apc[c] = "unlock"
  /\ apc' = [apc EXCEPT ![c] = "idle"]
  /\ acall' = [acall EXCEPT ![c] = NoAppend]
  /\ atmp' = [atmp EXCEPT ![c] = <<>>]
  /\ UNCHANGED <<smu, asent, heap, store>>
  /\ UNCHANGED connVars
  /\ UNCHANGED regVars

\* the deferred s.mu.Unlock(), and Append returns
AppendUnlock(c) ==
  /\ apc[c] = "unlock"
  /\ smu' = smu \ {<<acall[c].p, c>>}
  /\ apc' = [apc EXCEPT ![c] = "idle"]
  /\ acall' = [acall EXCEPT ![c] = NoAppend]
  /\ atmp' = [atmp EXCEPT ![c] = <<>>]
  /\ UNCHANGED <<asent, heap, store>>
  /\ UNCHANGED connVars
  /\ UNCHANGED regVars

NextAppend ==
  \E c \in Conns :
    \/ AppendCall(c)
    \/ AppendLock(c)
    \/ AppendBegin(c)
    \/ AppendEnd(c)
    \/ AppendUnlock(c)

SpecAppend == InitAppend /\ [][NextAppend]_vars

\* ------------------------------------- the handlers, lock step by lock step
\* The flows of SpecFlows with every handler taken apart into its statements:
\* the assignments to the session, the call of Store.Put or Store.Delete
\* (the steps of SpecStore), the call of Append (the steps of SpecAppend)
\* and the write of the response, in which the handler is blocked until the
\* transport has taken the frame or failed.

\* env.Type of the frame the connection is handling
MsgType(c) == UnmarshalEnvelope(msg[c].data).Type

\* the response a handler writes to the frame it is handling
Response(c) ==
  CASE MsgType(c) = "setup" ->
         [type |-> "session_resumption_update",
          handle |-> heap[sess[c]].ResumptionHandle]
    [] MsgType(c) = "input_text" ->
         [type |-> "output_text",
          text |-> <<"[echo] ">> \o UnmarshalClientInputText(msg[c].data).val.text,
          final |-> TRUE]
    [] OTHER ->
         [type |-> "output_text", text |-> <<"Goodbye! Session ended.">>,
          final |-> TRUE]

\* handleSetup that goes to Store.Put with the session as NewSession
\* returned it, State and ResumptionHandle not yet set
Enter_putsFirst(c) ==
  /\ pc[c] = "dispatch"
  /\ LET t == MsgType(c) IN
     IF t = "setup"
     THEN LET s0 == NewSession(UnmarshalSetupRequest(msg[c].data).val.model)
          IN /\ sess[c] = Nil
             /\ heap' = Append(heap, s0)
             /\ sess' = [sess EXCEPT ![c] = Len(heap) + 1]
             /\ sessionID' = [sessionID EXCEPT ![c] = s0.ID]
             /\ pc' = [pc EXCEPT ![c] = "put"]
     ELSE /\ sess[c] # Nil
          /\ heap' = SetState(heap, sess[c],
                               IF t = "input_text" THEN StateActive ELSE StateClosing)
          /\ pc' = [pc EXCEPT ![c] = "app"]
          /\ UNCHANGED <<sess, sessionID>>
  /\ UNCHANGED <<cancelled, msg, lateRead, store, nwritten, lastWrite, nread,
               closes, nrejected>>
  /\ UNCHANGED regVars
  /\ UNCHANGED appVars

\* the handler is entered and runs up to its first call: handleSetup creates
\* the session and sets its fields and the locals, handleInputText and
\* handleEndSession set the state
Enter(c) ==
  /\ pc[c] = "dispatch"
  /\ LET t == MsgType(c) IN
     IF t = "setup"
     THEN LET s0 == NewSession(UnmarshalSetupRequest(msg[c].data).val.model)
              s1 == [s0 EXCEPT !.State = StateConfigured]
              s2 == [s1 EXCEPT !.ResumptionHandle = <<"session_", s1.ID>>]
          IN /\ sess[c] = Nil
             /\ heap' = Append(heap, s2)
             /\ sess' = [sess EXCEPT ![c] = Len(heap) + 1]
             /\ sessionID' = [sessionID EXCEPT ![c] = s2.ID]
             /\ pc' = [pc EXCEPT ![c] = "put"]
     ELSE /\ sess[c] # Nil
          /\ heap' = SetState(heap, sess[c],
                               IF t = "input_text" THEN StateActive ELSE StateClosing)
          /\ pc' = [pc EXCEPT ![c] = "app"]
          /\ UNCHANGED <<sess, sessionID>>
  /\ UNCHANGED <<cancelled, msg, lateRead, store, nwritten, lastWrite, nread,
               closes, nrejected>>
  /\ UNCHANGED regVars
  /\ UNCHANGED appVars

\* handleSetup calls s.Store.Put(*sess)
StartPut(c) ==
  /\ pc[c] = "put"
  /\ spc[c] = "idle"
  /\ call' = [call EXCEPT ![c] = [op |-> "put", id |-> heap[sess[c]].ID,
                                   ent |-> sess[c]]]
  /\ spc' = [spc EXCEPT ![c] = "lock"]
  /\ pc' = [pc EXCEPT ![c] = "putting"]
  /\ UNCHANGED <<cancelled, msg, lateRead, sess, sessionID, heap, store, nwritten,
               lastWrite, nread, closes, nrejected>>
  /\ UNCHANGED <<mu, tmp, got, ncalls, abs, gone>>
  /\ UNCHANGED appVars

\* the handler calls Append with the message it decoded (in handleSetup,
\* after Put has returned)
StartAppend(c) ==
  /\ \/ pc[c] = "app"
     \/ pc[c] = "putting" /\ spc[c] = "idle"
  /\ apc[c] = "idle"
  /\ acall' = [acall EXCEPT ![c] =
       [p |-> sess[c],
        message |->
          CASE MsgType(c) = "setup" -> UnmarshalSetupRequest(msg[c].data).val
            [] MsgType(c) = "input_text" ->
                 UnmarshalClientInputText(msg[c].data).val
            [] OTHER -> UnmarshalSessionEnd(msg[c].data).val]]
  /\ apc' = [apc EXCEPT ![c] = "lock"]
  /\ pc' = [pc EXCEPT ![c] = "appending"]
  /\ UNCHANGED <<cancelled, msg, lateRead, sess, sessionID, heap, store, nwritten,
               lastWrite, nread, closes, nrejected>>
  /\ UNCHANGED regVars
  /\ UNCHANGED <<smu, atmp, asent>>

\* Append has returned and the handler calls writeJSON, where it blocks
StartWrite(c) ==
  /\ pc[c] = "appending"
  /\ apc[c] = "idle"
  /\ pc' = [pc EXCEPT ![c] = "write"]
  /\ UNCHANGED <<cancelled, msg, lateRead, sess, sessionID, heap, store, nwritten,
               lastWrite, nread, closes, nrejected>>
  /\ UNCHANGED regVars
  /\ UNCHANGED appVars

\* writeJSON returns. handleSetup and handleInputText return true if it
\* failed; handleEndSession goes on to sess.State = StateClosed whether it
\* failed or not.
WriteDone(c) ==
  /\ pc[c] = "write"
  /\ \E wok \in WriteOutcomes(c) :
       /\ nwritten' = [nwritten EXCEPT ![c] = @ + 1]
       /\ lastWrite' = [lastWrite EXCEPT ![c] =
                          [frame |-> Response(c), ok |-> wok, req |-> nread[c]]]
       /\ IF MsgType(c) = "end_session"
          THEN /\ heap' = SetState(heap, sess[c], StateClosed)
               /\ pc' = [pc EXCEPT ![c] = "delete"]
               /\ UNCHANGED <<closes, msg>>
          ELSE /\ heap' = heap
               /\ msg' = [msg EXCEPT ![c] = NoFrame]
               /\ IF wok
                  THEN pc' = [pc EXCEPT ![c] = "select"] /\ UNCHANGED closes
                  ELSE Return(c)
  /\ UNCHANGED <<cancelled, lateRead, sess, sessionID, store, nread, nrejected>>
  /\ UNCHANGED regVars
  /\ UNCHANGED appVars

\* handleEndSession calls s.Store.Delete(sessionID)
StartDelete(c) ==
  /\ pc[c] = "delete"
  /\ spc[c] = "idle"
  /\ call' = [call EXCEPT ![c] = [op |-> "delete", id |-> sessionID[c], ent |-> Nil]]
  /\ spc' = [spc EXCEPT ![c] = "lock"]
  /\ pc' = [pc EXCEPT ![c] = "deleting"]
  /\ UNCHANGED <<cancelled, msg, lateRead, sess, sessionID, heap, store, nwritten,
               lastWrite, nread, closes, nrejected>>
  /\ UNCHANGED <<mu, tmp, got, ncalls, abs, gone>>
  /\ UNCHANGED appVars

\* handleEndSession returns, and the connection is closed, before the
\* session has been deleted from the Store
EndReturn_early(c) ==
  /\ pc[c] \in {"delete", "deleting"}
  /\ spc[c] = "idle"
  /\ Return(c)
  /\ msg' = [msg EXCEPT ![c] = NoFrame]
  /\ UNCHANGED <<cancelled, lateRead, sess, sessionID, heap, store, nwritten,
               lastWrite, nread, nrejected>>
  /\ UNCHANGED regVars
  /\ UNCHANGED appVars

\* Delete has returned; handleEndSession returns true and handleSpeakWS returns
EndReturn(c) ==
  /\ pc[c] = "deleting"
  /\ spc[c] = "idle"
  /\ Return(c)
  /\ msg' = [msg EXCEPT ![c] = NoFrame]
  /\ UNCHANGED <<cancelled, lateRead, sess, sessionID, heap, store, nwritten,
               lastWrite, nread, nrejected>>
  /\ UNCHANGED regVars
  /\ UNCHANGED appVars

NextLocks ==
  \E c \in Conns :
    \/ Select(c)
    \/ ReadScript(c)
    \/ Enter(c)
    \/ StartPut(c)
    \/ Lock(c)
    \/ LockAcquired(c)
    \/ WriteBegin(c)
    \/ PutEnd(c)
    \/ DeleteEnd(c)
    \/ Unlock(c)
    \/ StartAppend(c)
    \/ AppendLock(c)
    \/ AppendBegin(c)
    \/ AppendEnd(c)
    \/ AppendUnlock(c)
    \/ StartWrite(c)
    \/ WriteDone(c)
    \/ StartDelete(c)
    \/ EndReturn(c)

SpecLocks == Init /\ [][NextLocks]_vars

\* ------------------------------------- calls on both locks, run fairly
\* Goroutines call Put, Get, Delete and Append concurrently, each goroutine
\* one call at a time (a call returns before the goroutine makes its next
\* one, as Put returns before Append is called in handleSetup). MaxCalls
\* bounds the calls of both kinds together.
InitCalls ==
  /\ pc = [c \in Conns |-> "closed"]
  /\ cancelled = FALSE
  /\ msg = [c \in Conns |-> NoFrame]
  /\ lateRead = [c \in Conns |-> FALSE]
  /\ sess = [c \in Conns |-> Nil]
  /\ sessionID = [c \in Conns |-> NoID]
  /\ heap = StoreHeap
  /\ store = EmptyStore
  /\ nwritten = [c \in Conns |-> 0]
  /\ lastWrite = [c \in Conns |-> NoWrite]
  /\ nread = [c \in Conns |-> 0]
  /\ closes = [c \in Conns |-> 0]
  /\ nrejected = 0
  /\ InitReg
  /\ InitApp

CallsBegun == ncalls + SumTo(asent, NumConns)

\* the calls on the Store: all on the session that the Appends are on (the
\* locks do not depend on the key)
SessionCalls ==
  {k \in StoreCalls : k.id = StoreHeap[1].ID /\ k.ent \in {Nil, 1}}

\* a goroutine that is in no call calls Put, Get or Delete
CallStore(c) ==
  /\ apc[c] = "idle"
  /\ spc[c] = "idle"
  /\ CallsBegun < MaxCalls
  /\ \E k \in SessionCalls : call' = [call EXCEPT ![c] = k]
  /\ spc' = [spc EXCEPT ![c] = "lock"]
  /\ ncalls' = ncalls + 1
  /\ UNCHANGED <<mu, tmp, got, abs, gone, heap, store>>
  /\ UNCHANGED connVars
  /\ UNCHANGED appVars

\* a goroutine that is in no call calls Append
CallAppend(c) ==
  /\ spc[c] = "idle"
  /\ CallsBegun < MaxCalls
  /\ AppendCall(c)

\* the steps inside a call of Put, Get, Delete or Append
CallStep(c) ==
  \/ RLock(c)
  \/ Lock(c)
  \/ LockAcquired(c)
  \/ GetRead(c)
  \/ WriteBegin(c)
  \/ PutEnd(c)
  \/ DeleteEnd(c)
  \/ Unlock(c)
  \/ AppendLock(c)
  \/ AppendBegin(c)
  \/ AppendEnd(c)
  \/ AppendUnlock(c)

NextCalls ==
  \E c \in Conns :
    \/ CallStore(c)
    \/ CallAppend(c)
    \/ CallStep(c)

\* the Go scheduler runs every goroutine that can take a step, and a
\* goroutine waiting in Lock or RLock is woken when the lock is released;
\* nothing obliges a goroutine to begin a call
SpecCalls ==
  InitCalls /\ [][NextCalls]_vars /\ \A c \in Conns : WF_vars(CallStep(c))

\* ================================================================ claims
\* connection c ran the body of its loop on the frame msg[c] in this step
Stepped(c) == pc[c] = "dispatch" /\ pc'[c] # "dispatch"

\* the discriminator a frame declares ("" if it declares none)
FrameType(f) ==
  IF f.op = "text" /\ f.data.kind = "object" /\ HasFieldOf(f.data, "type", "string")
  THEN Field(f.data, "type")[3]
  ELSE ""

\* the state of a connection's session, Connecting while it has none
ConnState(c) == IF sess[c] = Nil THEN StateConnecting ELSE heap[sess[c]].State

\* in this step c passed exactly one frame to the transport, in answer to the
\* frame it had read
WroteOne(c) == nwritten'[c] = nwritten[c] + 1 /\ lastWrite'[c].req = nread[c]

ErrorWritten(c, code) ==
  /\ WroteOne(c)
  /\ lastWrite'[c].frame.type = "error"
  /\ lastWrite'[c].frame.code = code

LastIsError(c, code) ==
  /\ nwritten[c] > 0
  /\ lastWrite[c].frame.type = "error"
  /\ lastWrite[c].frame.code = code

\* C1: the state of a connection's session never moves backwards along
\* Connecting -> Configured -> Active -> Closing -> Closed, in any step.
C1_StateMonotonic ==
  [][\A c \in Conns :
       (IF sess'[c] = Nil THEN StateConnecting ELSE heap'[sess'[c]].State)
         >= ConnState(c)]_vars

\* a session that went through setup, an input and end_session
C1_Witness ==
  \E c \in Conns :
    /\ sess[c] # Nil
    /\ heap[sess[c]].State = StateClosed
    /\ Len(heap[sess[c]].Log) = 3
    /\ heap[sess[c]].Log[2].type \in {"input_text", "input_audio"}

\* C2: without a session, a frame of type input_text, input_audio, tool_result
\* or end_session is answered by exactly one no_session error and creates no
\* session: the locals, the heap and the store stay as they were.
NonSetupTypes == {"input_text", "input_audio", "tool_result", "end_session"}

C2_NoSession ==
  [][\A c \in Conns :
       (Stepped(c) /\ sess[c] = Nil /\ FrameType(msg[c]) \in NonSetupTypes)
       => /\ ErrorWritten(c, "no_session")
          /\ sess'[c] = Nil
          /\ sessionID'[c] = sessionID[c]
          /\ heap' = heap
          /\ store' = store]_vars

C2_Witness ==
  \E c \in Conns : sess[c] = Nil /\ LastIsError(c, "no_session") /\ pc[c] = "select"

\* C3: with a session, every setup frame is answered by exactly one
\* already_setup error, and the session (identifier, model, state, log), the
\* locals and the store stay as they were; no session is created.
C3_AlreadySetup ==
  [][\A c \in Conns :
       (Stepped(c) /\ sess[c] # Nil /\ FrameType(msg[c]) = "setup")
       => /\ ErrorWritten(c, "already_setup")
          /\ sess'[c] = sess[c]
          /\ sessionID'[c] = sessionID[c]
          /\ heap' = heap
          /\ store' = store]_vars

C3_Witness ==
  \E c \in Conns :
    /\ sess[c] # Nil
    /\ LastIsError(c, "already_setup")
    /\ heap[sess[c]].State = StateConfigured
    /\ Len(heap[sess[c]].Log) = 1

\* C4: a valid setup frame without a session creates exactly one session in
\* state Configured, stores it under its identifier and writes exactly one
\* session_resumption_update whose handle is "session_" and the identifier,
\* which is also the session's resumption handle.
ValidSetup(f) == FrameType(f) = "setup" /\ HasFieldOf(f.data, "model", "string")

C4_Setup ==
  [][\A c \in Conns :
       (Stepped(c) /\ sess[c] = Nil /\ ValidSetup(msg[c]))
       => /\ Len(heap') = Len(heap) + 1
          /\ sess'[c] = Len(heap')
          /\ heap'[sess'[c]].State = StateConfigured
          /\ sessionID'[c] = heap'[sess'[c]].ID
          /\ sessionID'[c] \notin DOMAIN store
          /\ DOMAIN store' = DOMAIN store \cup {sessionID'[c]}
          /\ store'[sessionID'[c]] = sess'[c]
          /\ \A id \in DOMAIN store : store'[id] = store[id]
          /\ WroteOne(c)
          /\ lastWrite'[c].frame =
               [type |-> "session_resumption_update",
                handle |-> <<"session_", sessionID'[c]>>]
          /\ heap'[sess'[c]].ResumptionHandle = <<"session_", sessionID'[c]>>]_vars

C4_Witness ==
  \E c \in Conns :
    /\ sess[c] # Nil
    /\ nwritten[c] = 1
    /\ lastWrite[c].frame.type = "session_resumption_update"
    /\ lastWrite[c].ok
    /\ Get(store, sessionID[c]).exists

\* C5: a valid end_session frame with a session writes exactly one
\* output_text "Goodbye! Session ended." with final true, then the handler
\* returns and the connection is closed, and the store holds no entry for
\* the session's identifier.
ValidEndSession(f) ==
  FrameType(f) = "end_session" /\ HasFieldOf(f.data, "reason", "string")

Goodbye ==
  [type |-> "output_text", text |-> <<"Goodbye! Session ended.">>, final |-> TRUE]

C5_EndSession ==
  [][\A c \in Conns :
       (Stepped(c) /\ sess[c] # Nil /\ ValidEndSession(msg[c]))
       => /\ WroteOne(c)
          /\ lastWrite'[c].frame = Goodbye
          /\ pc'[c] = "closed"
          /\ closes'[c] = closes[c] + 1
          /\ ~Get(store', heap[sess[c]].ID).exists]_vars

C5_Witness ==
  \E c \in Conns :
    /\ pc[c] = "closed"
    /\ closes[c] = 1
    /\ nwritten[c] = 2
    /\ lastWrite[c].frame = Goodbye
    /\ lastWrite[c].ok
    /\ ~Get(store, sessionID[c]).exists

\* C6: the loop of a connection ends only by a failed read, by a failed write
\* of a handler's response, by the end_session handler completing, or by the
\* cancellation seen at the top of the loop; after an error frame (bad_json,
\* bad_setup, already_setup, no_session, unknown_type) the loop is back at
\* its top, ready for the next frame.
RecoverableCodes ==
  {"bad_json", "bad_setup", "already_setup", "no_session", "unknown_type"}

C6_LoopExit ==
  [][\A c \in Conns :
       /\ (pc[c] # "closed" /\ pc'[c] = "closed")
          => \/ pc[c] = "select" /\ cancelled
             \/ pc[c] = "read" /\ nread'[c] = nread[c]
             \/ /\ pc[c] = "dispatch"
                /\ \/ nwritten'[c] > nwritten[c] /\ ~lastWrite'[c].ok
                   \/ sess[c] # Nil /\ heap'[sess[c]].State = StateClosed
       /\ (/\ Stepped(c)
           /\ nwritten'[c] > nwritten[c]
           /\ lastWrite'[c].frame.type = "error")
          => /\ lastWrite'[c].frame.code \in RecoverableCodes
             /\ pc'[c] = "select"]_vars

\* the first frame was answered by an error frame (it created no session),
\* and the second frame, a setup, was still read and handled
C6_Witness ==
  \E c \in Conns :
    /\ nread[c] = 2
    /\ nwritten[c] = 2
    /\ lastWrite[c].req = 2
    /\ lastWrite[c].frame.type = "session_resumption_update"
    /\ pc[c] = "select"

\* C7: a frame answered by an error frame changes nothing: the locals, the
\* sessions and the store are as before the frame was read.
C7_ErrorNoEffect ==
  [][\A c \in Conns :
       (/\ Stepped(c)
        /\ nwritten'[c] > nwritten[c]
        /\ lastWrite'[c].frame.type = "error")
       => /\ sess' = sess
          /\ sessionID' = sessionID
          /\ heap' = heap
          /\ store' = store]_vars

C7_Witness ==
  \E c \in Conns :
    /\ sess[c] # Nil
    /\ LastIsError(c, "bad_json")
    /\ lastWrite[c].frame.message # <<"Only text messages are supported">>
    /\ lastWrite[c].frame.message # <<"Invalid JSON format">>

\* C8: a failed write of any response frame, error frames included, ends the
\* connection.
C8_WriteFailureEnds ==
  [][\A c \in Conns :
       (Stepped(c) /\ nwritten'[c] > nwritten[c] /\ ~lastWrite'[c].ok)
       => pc'[c] = "closed"]_vars

\* number of tool_result messages in a log
RECURSIVE CountToolResults(_)
CountToolResults(log) ==
  IF log = <<>> THEN 0
  ELSE (IF log[Len(log)].type = "tool_result" THEN 1 ELSE 0)
       + CountToolResults(SubSeq(log, 1, Len(log) - 1))

ToolResults(c) == IF sess[c] = Nil THEN 0 ELSE CountToolResults(heap[sess[c]].Log)

Pending(c) == IF pc[c] = "dispatch" THEN 1 ELSE 0

\* C9 as stated: the N-th frame written answers the N-th frame read.
C9_NthAnswersNth ==
  \A c \in Conns : nwritten[c] > 0 => lastWrite[c].req = nwritten[c]

\* C9 amended: every frame handled is answered by exactly one frame, except
\* an accepted tool_result, which is answered by none; so the N-th frame
\* written answers the N-th frame read that is not an accepted tool_result,
\* and the frames read since the last write are accepted tool_results.
C9_PairedExceptToolResult ==
  \A c \in Conns :
    /\ nwritten[c] + ToolResults(c) + Pending(c) = nread[c]
    /\ nwritten[c] > 0 =>
         /\ lastWrite[c].req + Pending(c) <= nread[c]
         /\ LET k == nread[c] - Pending(c) - lastWrite[c].req
                log == IF sess[c] = Nil THEN <<>> ELSE heap[sess[c]].Log
            IN /\ k <= Len(log)
               /\ \A i \in (Len(log) - k + 1)..Len(log) : log[i].type = "tool_result"

\* a response that answers the third frame is the second frame written
C9_Witness ==
  \E c \in Conns :
    /\ ToolResults(c) = 1
    /\ nwritten[c] = 2
    /\ lastWrite[c].req = 3
    /\ lastWrite[c].frame.type = "output_text"

\* C10: a frame read after the cancellation changes no session and no store
\* entry and causes no write.
C10_NoHandlingAfterCancel ==
  [][\A c \in Conns :
       (Stepped(c) /\ lateRead[c])
       => /\ heap' = heap
          /\ store' = store
          /\ nwritten'[c] = nwritten[c]]_vars

\* C11: once a connection's handler has exited, whatever ended it, the store
\* holds no entry for the session that connection created.
C11_CleanedUpOnExit ==
  \A c \in Conns :
    (pc[c] = "closed" /\ sess[c] # Nil) => ~Get(store, sessionID[c]).exists

\* C12: conn.Close() has run exactly once when the handler has exited, by
\* end_session, read error, write failure, cancellation or a panic of the
\* serialization, and not at all before.
C12_ClosedOnce ==
  \A c \in Conns : closes[c] = (IF pc[c] = "closed" THEN 1 ELSE 0)

\* the handler unwound from a panic in the write of the setup response: a
\* session exists, the frame was read and nothing was ever written
C12_Witness ==
  \E c \in Conns :
    /\ pc[c] = "closed"
    /\ closes[c] = 1
    /\ sess[c] # Nil
    /\ nread[c] = 1
    /\ nwritten[c] = 0

\* C13: a text frame that is not a JSON object with a type field (not
\* well-formed, or well-formed without the field) is answered by exactly one
\* bad_json error, reaches no handler (nothing changes) and leaves the loop
\* at its top.
C13_NoTypeIsBadJson ==
  [][\A c \in Conns :
       (/\ Stepped(c)
        /\ msg[c].op = "text"
        /\ (msg[c].data.kind # "object" \/ ~HasField(msg[c].data, "type")))
       => /\ ErrorWritten(c, "bad_json")
          /\ pc'[c] = "select"
          /\ sess' = sess
          /\ heap' = heap
          /\ store' = store]_vars

\* C14: a valid tool_result frame with a session appends the message to the
\* session's log and changes nothing else: the state, the other fields, the
\* store and the locals stay, no frame is written, and the loop is back at
\* its top.
ValidToolResult(f) ==
  /\ FrameType(f) = "tool_result"
  /\ HasFieldOf(f.data, "name", "string")
  /\ HasFieldOf(f.data, "call_id", "string")
  /\ HasField(f.data, "result")

C14_ToolResult ==
  [][\A c \in Conns :
       (Stepped(c) /\ sess[c] # Nil /\ ValidToolResult(msg[c]))
       => /\ heap' = [heap EXCEPT ![sess[c]].Log =
                        Append(@, [type |-> "tool_result",
                                   name |-> Field(msg[c].data, "name")[3],
                                   call_id |-> Field(msg[c].data, "call_id")[3]])]
          /\ heap'[sess[c]].State = heap[sess[c]].State
          /\ heap[sess[c]].State \in {StateConfigured, StateActive}
          /\ nwritten' = nwritten
          /\ lastWrite' = lastWrite
          /\ store' = store
          /\ sess' = sess
          /\ sessionID' = sessionID
          /\ pc'[c] = "select"
          /\ closes' = closes]_vars

\* the frame after a logged tool_result was read, handled and answered
C14_Witness ==
  \E c \in Conns :
    /\ sess[c] # Nil
    /\ Len(heap[sess[c]].Log) = 3
    /\ heap[sess[c]].Log[2].type = "tool_result"
    /\ heap[sess[c]].Log[3].type \in {"input_text", "input_audio"}
    /\ heap[sess[c]].State = StateActive
    /\ lastWrite[c].req = 3
    /\ lastWrite[c].ok
    /\ pc[c] = "select"

\* C16: a session belongs to one connection, and only a handler step of that
\* connection changes it: every other step (a frame, an error, a failure or
\* an exit of another connection, a cancellation) leaves its state, its log
\* and its store entry as they were.
C16_OwnerOnly ==
  [][\A d \in Conns :
       sess[d] # Nil =>
         /\ \A c \in Conns \ {d} : sess[c] # sess[d]
         /\ ~Stepped(d) =>
              /\ sess'[d] = sess[d]
              /\ heap'[sess[d]] = heap[sess[d]]
              /\ Get(store', sessionID[d]) = Get(store, sessionID[d])]_vars

\* two connections hold sessions, and one of them has been driven further
C16_Witness ==
  \E c, d \in Conns :
    /\ c # d
    /\ sess[c] # Nil /\ sess[d] # Nil
    /\ heap[sess[c]].State = StateActive
    /\ heap[sess[d]].State = StateConfigured
    /\ Get(store, sessionID[c]).exists
    /\ Get(store, sessionID[d]).exists

\* the answer a full flow expects to its n-th frame
Expected(c, n) ==
  CASE n = 1 -> [type |-> "session_resumption_update",
                 handle |-> <<"session_", sessionID[c]>>]
    [] n = 2 -> [type |-> "output_text", text |-> <<"[echo] ", FlowText(c)>>,
                 final |-> TRUE]
    [] OTHER -> Goodbye

\* C15: with every connection running the flow setup, input_text,
\* end_session concurrently, each connection is written exactly its own
\* answers in order: the n-th frame written answers its n-th frame and is
\* the handle of its own session, then the echo of its own text, then the
\* goodbye; no two connections have the same session identifier; and when
\* all flows have completed the store is empty.
C15_ConcurrentFlows ==
  /\ \A c \in Conns :
       /\ nwritten[c] + Pending(c) = nread[c]
       /\ nwritten[c] > 0 =>
            /\ lastWrite[c].req = nwritten[c]
            /\ lastWrite[c].frame = Expected(c, nwritten[c])
  /\ \A c, d \in Conns :
       (c # d /\ sess[c] # Nil /\ sess[d] # Nil) => sessionID[c] # sessionID[d]
  /\ (\A c \in Conns : pc[c] = "closed" /\ nread[c] = Len(Script(c)))
       => store = EmptyStore

\* all flows have completed and every answer was delivered
C15_Witness ==
  /\ \A c \in Conns :
       /\ pc[c] = "closed"
       /\ nread[c] = Len(Script(c))
       /\ nwritten[c] = Len(Script(c))
       /\ lastWrite[c].ok
  /\ Len(heap) = NumConns
  /\ store = EmptyStore

\* ------------------------------------------------ claims about the Store
\* steps of a call of caller c: its map assignment is done, its read is done
PutCommits(c) == spc[c] = "store" /\ call[c].op = "put" /\ spc'[c] = "unlock"
DeleteCommits(c) == spc[c] = "store" /\ call[c].op = "delete" /\ spc'[c] = "unlock"
GetReads(c) == spc[c] = "cs" /\ call[c].op = "get" /\ spc'[c] = "unlock"

\* what a get of id returns from the registry of the calls taken one by one
AbsLookup(id) ==
  IF \E q \in abs : q[1] = id
  THEN [session |-> (CHOOSE q \in abs : q[1] = id)[2], exists |-> TRUE]
  ELSE NoResult

\* caller c holds the lock
InCS(c) == spc[c] \in {"cs", "store", "unlock"}

\* C17: concurrent Put, Get and Delete calls take effect one at a time, each
\* at one step between its lock and its unlock: every Get returns what the
\* calls that took effect before it leave under its identifier, and whenever
\* no assignment is under way the map is exactly what those calls, applied
\* in that order, produce (no update is lost, none is seen half done). The
\* order is a sequential one that keeps each caller's own order.
C17_Atomic ==
  [][/\ \A c \in Conns : GetReads(c) => got'[c] = AbsLookup(call[c].id)
     /\ (~Writing)' => AsPairs(store') = abs'
     /\ \A q, r \in abs' : q[1] = r[1] => q = r]_vars

\* a Put has taken effect while a Get of the same identifier by another
\* caller waits for the lock
C17_Witness ==
  \E c, d \in Conns :
    /\ c # d
    /\ spc[c] = "unlock" /\ call[c].op = "put"
    /\ spc[d] = "lock" /\ call[d].op = "get" /\ call[d].id = call[c].id
    /\ <<call[c].id, call[c].ent>> \in abs

\* C18: a Get of an identifier that was deleted and not put since returns
\* (nil, false); a Delete leaves no entry for its identifier and every other
\* entry as it was, and when the identifier is not stored it changes nothing
\* and returns like any other call.
C18_GetAfterDelete ==
  [][\A c \in Conns :
       /\ (GetReads(c) /\ call[c].id \in gone) => got'[c] = NoResult
       /\ DeleteCommits(c) =>
            /\ ~Get(store', call[c].id).exists
            /\ \A x \in StoreIDs \ {call[c].id} : Get(store', x) = Get(store, x)
            /\ call[c].id \notin DOMAIN store => store' = store
            /\ spc'[c] = "unlock"]_vars

\* a Get of a deleted identifier returned not present, another entry remains
C18_Witness ==
  \E c \in Conns :
    /\ spc[c] = "unlock"
    /\ call[c].op = "get"
    /\ call[c].id \in gone
    /\ got[c] = NoResult
    /\ store # EmptyStore

\* C19: Put leaves its session stored under the session's identifier, in
\* place of any session stored there before, and the other entries as they
\* were; Get returns the session last put under the identifier and true, or
\* (nil, false) when none is stored, and leaves the map as it is.
C19_PutGet ==
  [][\A c \in Conns :
       /\ PutCommits(c) =>
            /\ Get(store', heap[call[c].ent].ID) =
                 [session |-> call[c].ent, exists |-> TRUE]
            /\ DOMAIN store' = DOMAIN store \cup {heap[call[c].ent].ID}
            /\ \A x \in DOMAIN store \ {heap[call[c].ent].ID} : store'[x] = store[x]
       /\ GetReads(c) =>
            /\ store' = store
            /\ got'[c] = AbsLookup(call[c].id)
            /\ got'[c] = IF call[c].id \in DOMAIN store
                         THEN [session |-> store[call[c].id], exists |-> TRUE]
                         ELSE NoResult]_vars

\* a Put has replaced another session stored under the same identifier
C19_Witness ==
  \E c \in Conns :
    /\ spc[c] = "unlock"
    /\ call[c].op = "put"
    /\ call[c].id \in DOMAIN tmp[c]
    /\ tmp[c][call[c].id] # call[c].ent
    /\ store[call[c].id] = call[c].ent

\* C20: a caller inside Put or Delete holds the lock alone; a Get about to
\* take the lock can take it whenever no writer holds it or has asked for
\* it, whatever Gets are inside.
C20_ReadersShare ==
  \A c \in Conns :
    /\ (InCS(c) /\ call[c].op \in {"put", "delete"})
         => \A d \in Conns \ {c} : ~InCS(d)
    /\ (/\ spc[c] = "lock"
        /\ call[c].op = "get"
        /\ mu.writer = 0
        /\ mu.pending = 0)
         => ENABLED RLock(c)

\* two Gets are inside together
C20_Witness ==
  \E c, d \in Conns :
    /\ c # d
    /\ spc[c] = "cs" /\ call[c].op = "get"
    /\ spc[d] = "cs" /\ call[d].op = "get"
    /\ mu.readers = {c, d}

\* ------------------------------------------------- claims about Append
\* the positions of a message in a log
Positions(log, m) == {i \in 1..Len(log) : log[i] = m}

\* C21: when all concurrent Append calls on the session have returned, its
\* log has one entry per call: every message appended occurs exactly once,
\* and the messages of one caller are in the order of its calls.
C21_NoAppendLost ==
  (\A c \in Conns : apc[c] = "idle") =>
    LET log == heap[1].Log IN
    /\ Len(log) = SumTo(asent, NumConns)
    /\ \A c \in Conns : \A j \in 0..(asent[c] - 1) :
         /\ Cardinality(Positions(log, TestMessage(c, j))) = 1
         /\ j > 0 =>
              \A i \in Positions(log, TestMessage(c, j - 1)) :
                \A k \in Positions(log, TestMessage(c, j)) : i < k

\* every caller has appended, one of them twice, and all calls have returned
C21_Witness ==
  /\ \A c \in Conns : apc[c] = "idle" /\ asent[c] >= 1
  /\ \E c \in Conns : asent[c] >= 2
  /\ Len(heap[1].Log) = MaxAppends

\* ------------------------------------------- claims about the dispatcher
ValidInputText(f) ==
  FrameType(f) = "input_text" /\ HasFieldOf(f.data, "text", "string")

ValidInputAudio(f) ==
  /\ FrameType(f) = "input_audio"
  /\ HasFieldOf(f.data, "format", "string")
  /\ Field(f.data, "format")[3] \in {"wav", "pcm16", "opus"}
  /\ HasFieldOf(f.data, "chunk", "string")
  /\ HasFieldOf(f.data, "final", "bool")

\* connection c accepts frame f: a valid setup without a session, or a valid
\* message of one of the other four types with a session
Accepted(c, f) ==
  \/ sess[c] = Nil /\ ValidSetup(f)
  \/ /\ sess[c] # Nil
     /\ \/ ValidInputText(f)
        \/ ValidInputAudio(f)
        \/ ValidToolResult(f)
        \/ ValidEndSession(f)

\* the message of an accepted frame
Entry(f) ==
  CASE FrameType(f) = "setup" -> UnmarshalSetupRequest(f.data).val
    [] FrameType(f) = "input_text" -> UnmarshalClientInputText(f.data).val
    [] FrameType(f) = "input_audio" -> UnmarshalClientInputAudio(f.data).val
    [] FrameType(f) = "tool_result" -> UnmarshalToolResult(f.data).val
    [] OTHER -> UnmarshalSessionEnd(f.data).val

IsPrefix(a, b) == Len(a) <= Len(b) /\ SubSeq(b, 1, Len(a)) = a

\* C22: in every step the log of every session is a prefix of its new log;
\* a frame that its connection accepts adds exactly its message at the end
\* of the connection's own log (the setup request starting the log of the new
\* session), a rejected frame and every other step add nothing; so a log
\* begins with the setup request and holds no other.
C22_LogAppendOnly ==
  [][/\ Len(heap') >= Len(heap)
     /\ \A p \in 1..Len(heap) : IsPrefix(heap[p].Log, heap'[p].Log)
     /\ \A c \in Conns :
          Stepped(c) =>
            IF Accepted(c, msg[c])
            THEN /\ sess'[c] # Nil
                 /\ heap'[sess'[c]].Log =
                      (IF sess[c] = Nil THEN <<>> ELSE heap[sess[c]].Log)
                        \o <<Entry(msg[c])>>
                 /\ \A p \in 1..Len(heap) :
                      p # sess[c] => heap'[p].Log = heap[p].Log
                 /\ Len(heap') = Len(heap) + (IF sess[c] = Nil THEN 1 ELSE 0)
            ELSE /\ Len(heap') = Len(heap)
                 /\ \A p \in 1..Len(heap) : heap'[p].Log = heap[p].Log
     /\ (\A c \in Conns : ~Stepped(c)) => heap' = heap
     /\ \A p \in 1..Len(heap') :
          LET log == heap'[p].Log IN
          /\ log # <<>>
          /\ log[1].type = "setup"
          /\ \A i \in 2..Len(log) : log[i].type \in NonSetupTypes]_vars

\* a frame was rejected after the setup, and the log holds the setup alone
C22_Witness ==
  \E c \in Conns :
    /\ sess[c] # Nil
    /\ nread[c] = 2
    /\ LastIsError(c, "bad_json")
    /\ lastWrite[c].req = 2
    /\ Len(heap[sess[c]].Log) = 1
    /\ heap[sess[c]].Log[1].type = "setup"

\* C23: a frame is read only when the connection holds no frame that it has
\* not handled: the frame before it has been handled to its end, response
\* written (or, for an accepted tool_result, logged).
C23_OneAtATime ==
  [][\A c \in Conns :
       nread'[c] # nread[c] =>
         /\ nread'[c] = nread[c] + 1
         /\ pc[c] = "read"
         /\ msg[c] = NoFrame
         /\ nwritten[c] + ToolResults(c) = nread[c]
         /\ nwritten[c] > 0 =>
              \/ lastWrite[c].req = nread[c]
              \/ heap[sess[c]].Log[Len(heap[sess[c]].Log)].type = "tool_result"]_vars

\* the second frame is in the handler after the first was answered
C23_Witness ==
  \E c \in Conns :
    /\ pc[c] = "dispatch"
    /\ nread[c] = 2
    /\ nwritten[c] = 1
    /\ lastWrite[c].req = 1
    /\ msg[c] # NoFrame

\* a connection's goroutine is blocked in ReadClientData or in the write of
\* a response
Blocked(c) == pc[c] \in {"read", "write"}

\* c holds Store.mu (as the writer, as a writer past the writers' mutex, or
\* as a reader), or the mutex of some session
HoldsLock(c) ==
  \/ mu.writer = c
  \/ mu.pending = c
  \/ c \in mu.readers
  \/ \E q \in smu : q[2] = c

NoLockWhileBlocked == \A c \in Conns : Blocked(c) => ~HoldsLock(c)

\* C24: a connection blocked in a frame read or a frame write holds neither
\* Store.mu nor the mutex of any session, before and after every step; and
\* the map of the Store changes only in the assignment step of a Put or a
\* Delete whose caller holds Store.mu as the writer.
C24_NoLockAcrossIO ==
  [][/\ NoLockWhileBlocked
     /\ NoLockWhileBlocked'
     /\ store' # store =>
          \E c \in Conns :
            /\ mu.writer = c
            /\ spc[c] = "store"
            /\ spc'[c] = "unlock"
            /\ call[c].op \in {"put", "delete"}]_vars

\* one connection is blocked in the write of its response while another is
\* inside Store.Put with the lock
C24_Witness ==
  \E c, d \in Conns :
    /\ c # d
    /\ pc[c] = "write"
    /\ mu.writer = d
    /\ spc[d] = "store"

\* C25: a valid input_text frame with a session, whatever its text, leaves
\* the session Active with the input at the end of its log, and writes
\* exactly one frame: output_text, "[echo] " followed by the text, final true.
C25_Echo ==
  [][\A c \in Conns :
       (Stepped(c) /\ sess[c] # Nil /\ ValidInputText(msg[c]))
       => LET t == Field(msg[c].data, "text")[3] IN
          /\ heap'[sess[c]].State = StateActive
          /\ heap'[sess[c]].Log =
               Append(heap[sess[c]].Log, [type |-> "input_text", text |-> <<t>>])
          /\ WroteOne(c)
          /\ lastWrite'[c].frame =
               [type |-> "output_text", text |-> <<"[echo] ", t>>, final |-> TRUE]]_vars

\* a second text, sent to a session that was already Active, was echoed
C25_Witness ==
  \E c \in Conns :
    /\ sess[c] # Nil
    /\ heap[sess[c]].State = StateActive
    /\ Len(heap[sess[c]].Log) = 3
    /\ heap[sess[c]].Log[2].type = "input_text"
    /\ heap[sess[c]].Log[3] = [type |-> "input_text", text |-> <<"Hello, world!">>]
    /\ nwritten[c] = 3
    /\ lastWrite[c].ok
    /\ lastWrite[c].frame.text = <<"[echo] ", "Hello, world!">>

\* C26: a valid input_audio frame with a session, of format wav, pcm16 or
\* opus and either final flag, leaves the session Active with the input at
\* the end of its log and writes exactly one frame: output_text, "Received
\* audio chunk in <format> format (final: <final>)", final true. With any
\* other format the frame is answered by one bad_json error and nothing
\* changes.
C26_AudioAck ==
  [][\A c \in Conns :
       (/\ Stepped(c)
        /\ sess[c] # Nil
        /\ FrameType(msg[c]) = "input_audio"
        /\ HasFieldOf(msg[c].data, "format", "string")
        /\ HasFieldOf(msg[c].data, "chunk", "string")
        /\ HasFieldOf(msg[c].data, "final", "bool"))
       => LET f == Field(msg[c].data, "format")[3]
              fin == Field(msg[c].data, "final")[3]
          IN IF f \in {"wav", "pcm16", "opus"}
             THEN /\ heap'[sess[c]].State = StateActive
                  /\ Len(heap'[sess[c]].Log) = Len(heap[sess[c]].Log) + 1
                  /\ SubSeq(heap'[sess[c]].Log, 1, Len(heap[sess[c]].Log))
                       = heap[sess[c]].Log
                  /\ heap'[sess[c]].Log[Len(heap'[sess[c]].Log)] =
                       [type |-> "input_audio", format |-> f,
                        chunk |-> Field(msg[c].data, "chunk")[3],
                        final |-> (fin = "true")]
                  /\ WroteOne(c)
                  /\ lastWrite'[c].frame =
                       [type |-> "output_text",
                        text |-> <<"Received audio chunk in ", f,
                                   " format (final: ", fin, ")">>,
                        final |-> TRUE]
             ELSE /\ ErrorWritten(c, "bad_json")
                  /\ heap' = heap
                  /\ store' = store
                  /\ sess' = sess]_vars

\* a pcm16 chunk that is not final was acknowledged
C26_Witness ==
  \E c \in Conns :
    /\ sess[c] # Nil
    /\ heap[sess[c]].State = StateActive
    /\ lastWrite[c].ok
    /\ lastWrite[c].frame =
         [type |-> "output_text",
          text |-> <<"Received audio chunk in ", "pcm16", " format (final: ",
                     "false", ")">>,
          final |-> TRUE]

\* C28: a frame that is not a text frame is answered by exactly one error
\* frame, bad_json "Only text messages are supported", whatever its payload;
\* it reaches no decoder and no handler (the locals, the sessions and the
\* store stay as they were) and the loop is back at its top.
C28_NonText ==
  [][\A c \in Conns :
       (Stepped(c) /\ msg[c].op # "text")
       => /\ ErrorWritten(c, "bad_json")
          /\ lastWrite'[c].frame.message = <<"Only text messages are supported">>
          /\ pc'[c] = "select"
          /\ sess' = sess
          /\ sessionID' = sessionID
          /\ heap' = heap
          /\ store' = store]_vars

\* a binary frame was rejected on a connection without a session
C28_Witness ==
  \E c \in Conns :
    /\ LastIsError(c, "bad_json")
    /\ lastWrite[c].frame.message = <<"Only text messages are supported">>
    /\ sess[c] = Nil
    /\ pc[c] = "select"

\* C27: a text frame whose envelope has a type that is none of setup,
\* input_text, input_audio, tool_result, end_session is answered by exactly
\* one unknown_type error naming the type, with or without a session, and
\* changes nothing.
KnownTypes == {"setup"} \cup NonSetupTypes

C27_UnknownType ==
  [][\A c \in Conns :
       (/\ Stepped(c)
        /\ msg[c].op = "text"
        /\ msg[c].data.kind = "object"
        /\ HasFieldOf(msg[c].data, "type", "string")
        /\ FrameType(msg[c]) \notin KnownTypes)
       => /\ ErrorWritten(c, "unknown_type")
          /\ lastWrite'[c].frame.message =
               <<"Unknown message type: ", FrameType(msg[c])>>
          /\ pc'[c] = "select"
          /\ sess' = sess
          /\ sessionID' = sessionID
          /\ heap' = heap
          /\ store' = store]_vars

\* an unknown type was rejected on a connection that has a session
C27_Witness ==
  \E c \in Conns :
    /\ sess[c] # Nil
    /\ LastIsError(c, "unknown_type")
    /\ lastWrite[c].frame.message = <<"Unknown message type: ", "unknown_message">>
    /\ heap[sess[c]].State = StateConfigured

\* C29: a setup frame without the model field, on a connection without a
\* session, is answered by exactly one bad_setup error; no session is
\* created, the store gets no entry and the loop is back at its top; and a
\* valid setup that is not the connection's first frame still creates and
\* stores the session and is answered by the resumption update.
C29_BadSetup ==
  [][\A c \in Conns :
       /\ (/\ Stepped(c)
           /\ sess[c] = Nil
           /\ FrameType(msg[c]) = "setup"
           /\ ~HasFieldOf(msg[c].data, "model", "string"))
          => /\ ErrorWritten(c, "bad_setup")
             /\ sess'[c] = Nil
             /\ sessionID'[c] = sessionID[c]
             /\ heap' = heap
             /\ store' = store
             /\ pc'[c] = "select"
       /\ (Stepped(c) /\ sess[c] = Nil /\ ValidSetup(msg[c]) /\ nread[c] > 1)
          => /\ sess'[c] # Nil
             /\ Get(store', sessionID'[c]) = [session |-> sess'[c], exists |-> TRUE]
             /\ WroteOne(c)
             /\ lastWrite'[c].frame.type = "session_resumption_update"]_vars

\* a setup without model was rejected, and the connection reads on
C29_Witness ==
  \E c \in Conns :
    /\ LastIsError(c, "bad_setup")
    /\ sess[c] = Nil
    /\ store = EmptyStore
    /\ pc[c] = "read"
    /\ nread[c] = 1

\* C30: no two sessions have the same identifier; every store entry is
\* keyed by the identifier of its session; and the session of a connection
\* stays stored under its identifier until that connection ends it: no
\* setup of another connection takes its key.
C30_UniqueIDs ==
  /\ \A p, q \in 1..Len(heap) : p # q => heap[p].ID # heap[q].ID
  /\ \A id \in DOMAIN store : heap[store[id]].ID = id
  /\ \A c \in Conns :
       (sess[c] # Nil /\ heap[sess[c]].State # StateClosed)
         => Get(store, sessionID[c]) = [session |-> sess[c], exists |-> TRUE]

\* every connection has set up a session, and each has its own key
C30_Witness ==
  /\ \A c \in Conns : sess[c] # Nil
  /\ Cardinality(DOMAIN store) = NumConns

\* C31: on every connection a frame is written only in answer to a frame
\* that has been read: the frames written never outnumber the frames whose
\* handling has begun, the last frame written answers a frame read before
\* it, a frame that is read and not yet handled has no answer yet, and a
\* connection that has read nothing has written nothing.
C31_CausalOrder ==
  \A c \in Conns :
    /\ nwritten[c] + Pending(c) <= nread[c]
    /\ nwritten[c] > 0 =>
         /\ lastWrite[c].req >= 1
         /\ lastWrite[c].req + Pending(c) <= nread[c]
         /\ nwritten[c] <= lastWrite[c].req
    /\ nwritten[c] = 0 => lastWrite[c] = NoWrite

\* a connection has answered two frames and is holding a third one that it
\* has not handled yet
C31_Witness ==
  \E c \in Conns :
    /\ pc[c] = "dispatch"
    /\ nread[c] = 3
    /\ nwritten[c] = 2
    /\ lastWrite[c].req = 2

\* C32: every handler looks at the session before it decodes the payload: a
\* frame of type input_text, input_audio, tool_result or end_session whose
\* payload does not decode, on a connection without a session, is answered
\* by one no_session error (not bad_json), and a setup frame whose payload
\* does not decode, on a connection with a session, by one already_setup
\* error (not bad_setup).
Malformed(f) ==
  CASE FrameType(f) = "setup" -> UnmarshalSetupRequest(f.data).err
    [] FrameType(f) = "input_text" -> UnmarshalClientInputText(f.data).err
    [] FrameType(f) = "input_audio" -> UnmarshalClientInputAudio(f.data).err
    [] FrameType(f) = "tool_result" -> UnmarshalToolResult(f.data).err
    [] FrameType(f) = "end_session" -> UnmarshalSessionEnd(f.data).err
    [] OTHER -> FALSE

C32_SessionCheckFirst ==
  [][\A c \in Conns :
       (Stepped(c) /\ Malformed(msg[c]))
       => /\ (sess[c] = Nil /\ FrameType(msg[c]) \in NonSetupTypes)
               => ErrorWritten(c, "no_session")
          /\ (sess[c] # Nil /\ FrameType(msg[c]) = "setup")
               => ErrorWritten(c, "already_setup")]_vars

\* a frame was rejected with already_setup as the second frame of a
\* connection whose loop goes on (the setup without model is such a frame)
C32_Witness ==
  \E c \in Conns :
    /\ sess[c] # Nil
    /\ LastIsError(c, "already_setup")
    /\ nread[c] = 2
    /\ nrejected = 1
    /\ pc[c] = "select"

\* C33: no frame is read or dispatched on a connection whose session is in
\* state Closing or Closed: a connection whose loop is running (at its
\* select, in its read, or about to handle a frame) has no session or one
\* that is Configured or Active, and a session that is Closing or Closed
\* belongs to a connection whose handleSpeakWS has returned.
C33_NoDispatchWhenClosed ==
  \A c \in Conns :
    /\ pc[c] \in {"select", "read", "dispatch"}
         => ConnState(c) \in {StateConnecting, StateConfigured, StateActive}
    /\ ConnState(c) \in {StateClosing, StateClosed}
         => pc[c] = "closed" /\ msg[c] = NoFrame

\* end_session was the second frame of a connection: its session is Closed,
\* the loop has returned, and the frame budget would allow another frame
C33_Witness ==
  \E c \in Conns :
    /\ ConnState(c) = StateClosed
    /\ pc[c] = "closed"
    /\ nread[c] = 2
    /\ TotalRead + nrejected < MaxFrames

\* C34: handleEndSession runs its steps in this order: State = Closing, the
\* Append of the message, the write of the goodbye, State = Closed,
\* Store.Delete, and only then the return that closes the connection. At
\* each position the earlier steps are done and the later ones are not; so
\* a closed connection whose session is Closed has no entry in the Store,
\* while the entry is still there when the goodbye has just been written.
Stored(c) == Get(store, sessionID[c]) = [session |-> sess[c], exists |-> TRUE]

Ending(c) == MsgType(c) = "end_session" /\ sess[c] # Nil

LastLogged(c) ==
  LET log == heap[sess[c]].Log IN
  IF log = <<>> THEN "" ELSE log[Len(log)].type

GoodbyeWritten(c) == lastWrite[c].frame = Goodbye /\ lastWrite[c].req = nread[c]

C34_EndSessionOrder ==
  \A c \in Conns :
    /\ (Ending(c) /\ pc[c] \in {"app", "appending", "write"})
         => /\ heap[sess[c]].State = StateClosing
            /\ ~GoodbyeWritten(c)
            /\ Stored(c)
            /\ closes[c] = 0
    /\ (Ending(c) /\ pc[c] = "app") => LastLogged(c) # "end_session"
    /\ (Ending(c) /\ pc[c] = "write") => LastLogged(c) = "end_session"
    /\ pc[c] \in {"delete", "deleting"}
         => /\ Ending(c)
            /\ LastLogged(c) = "end_session"
            /\ GoodbyeWritten(c)
            /\ heap[sess[c]].State = StateClosed
            /\ closes[c] = 0
    /\ pc[c] = "delete" => Stored(c)
    /\ (pc[c] = "deleting" /\ spc[c] = "idle") => ~Get(store, sessionID[c]).exists
    /\ (pc[c] = "closed" /\ ConnState(c) = StateClosed)
         => /\ ~Get(store, sessionID[c]).exists
            /\ GoodbyeWritten(c)
            /\ closes[c] = 1

\* the goodbye has been written and the session is Closed, and a Get would
\* still find it: Delete has not been called yet; meanwhile another
\* connection's end_session has completed and its entry is gone
C34_Witness ==
  \E c, d \in Conns :
    /\ pc[c] = "delete"
    /\ GoodbyeWritten(c)
    /\ Stored(c)
    /\ pc[d] = "closed"
    /\ ConnState(d) = StateClosed
    /\ ~Get(store, sessionID[d]).exists

\* C35: when the write of the goodbye fails, the session is Closed all the
\* same, its entry is deleted from the Store, the end_session message is in
\* its log, and handleSpeakWS has returned and closed the connection.
GoodbyeFailed(c) ==
  /\ nwritten[c] > 0
  /\ lastWrite[c].frame = Goodbye
  /\ ~lastWrite[c].ok

C35_GoodbyeFailure ==
  \A c \in Conns :
    GoodbyeFailed(c)
      => /\ sess[c] # Nil
         /\ heap[sess[c]].State = StateClosed
         /\ LastLogged(c) = "end_session"
         /\ ~Get(store, sessionID[c]).exists
         /\ \A id \in DOMAIN store : store[id] # sess[c]
         /\ pc[c] = "closed"
         /\ closes[c] = 1

\* the goodbye could not be written, after a setup that was answered
C35_Witness ==
  \E c \in Conns :
    /\ GoodbyeFailed(c)
    /\ nread[c] = 2
    /\ nwritten[c] = 2
    /\ heap[sess[c]].State = StateClosed

\* C36: a session is handed to Store.Put, and is in the map of the Store,
\* only with State and ResumptionHandle set: every session a Put is storing
\* and every session a Get could find at any moment has a state other than
\* Connecting and the resumption handle "session_" and its identifier.
Published(p) ==
  /\ heap[p].State # StateConnecting
  /\ heap[p].ResumptionHandle = <<"session_", heap[p].ID>>

C36_ConfiguredBeforePut ==
  /\ \A id \in DOMAIN store : Published(store[id]) /\ heap[store[id]].ID = id
  /\ \A c \in Conns : call[c].op = "put" => Published(call[c].ent)

\* a session is in the map while the Put that stored it still holds the
\* lock, and another connection's Put waits for it
C36_Witness ==
  \E c, d \in Conns :
    /\ pc[c] = "putting"
    /\ spc[c] = "unlock"
    /\ Stored(c)
    /\ heap[sess[c]].State = StateConfigured
    /\ pc[d] = "putting"
    /\ spc[d] = "lock"

\* C37: each frame read causes at most one frame written: handling a frame
\* passes exactly one frame to the transport, except a valid tool_result on
\* a connection with a session, which passes none; so on every connection
\* the frames written are the frames handled minus the tool_result messages
\* accepted.
AcceptedToolResult(c) == sess[c] # Nil /\ ValidToolResult(msg[c])

C37_OneWritePerFrame ==
  \A c \in Conns :
    /\ pc[c] = "dispatch" =>
         \A wok \in WriteOutcomes(c) :
           Len(loopBody(c, msg[c], wok).writes)
             = IF AcceptedToolResult(c) THEN 0 ELSE 1
    /\ nwritten[c] = nread[c] - Pending(c) - ToolResults(c)
    /\ nwritten[c] <= nread[c]

\* a setup and two tool_results: three frames read, one written
C37_Witness ==
  \E c \in Conns :
    /\ nread[c] = 3
    /\ ToolResults(c) = 2
    /\ nwritten[c] = 1
    /\ pc[c] = "select"

\* C38: between frames, a connection has a session reference exactly if a
\* setup succeeded on it: every session created is referenced by exactly one
\* connection and has its setup message first in its log, and a connection
\* without a reference has an empty identifier slot. With a reference, the
\* identifier slot holds the session's identifier, and while the loop runs
\* the Store maps that identifier to that session. The Store has no entry
\* for a connection whose end_session has completed.
Running(c) == pc[c] \in {"select", "read", "dispatch"}

C38_LoopInvariant ==
  /\ \A p \in 1..Len(heap) :
       /\ Cardinality({c \in Conns : sess[c] = p}) = 1
       /\ heap[p].Log # <<>>
       /\ heap[p].Log[1].type = "setup"
  /\ \A c \in Conns :
       /\ sess[c] = Nil => sessionID[c] = NoID
       /\ sess[c] # Nil => sessionID[c] = heap[sess[c]].ID
       /\ (Running(c) /\ sess[c] # Nil) => Stored(c)
       /\ ConnState(c) = StateClosed
            => /\ ~Get(store, sessionID[c]).exists
               /\ \A id \in DOMAIN store : store[id] # sess[c]

\* one connection is between frames with its session stored, another has
\* completed end_session and its entry is gone
C38_Witness ==
  \E c, d \in Conns :
    /\ pc[c] = "read"
    /\ sess[c] # Nil
    /\ Stored(c)
    /\ ConnState(d) = StateClosed
    /\ DOMAIN store = {sessionID[c]}

\* C39: when the scope is cancelled at the moment an iteration of the loop
\* begins, the step the connection takes is the return: the connection is
\* closed, and no frame is read, no handler runs, nothing is written, and
\* the sessions and the Store stay as they are.
C39_CancelledAtTop ==
  [][\A c \in Conns :
       (pc[c] = "select" /\ cancelled /\ pc'[c] # pc[c])
       => /\ pc'[c] = "closed"
          /\ closes'[c] = closes[c] + 1
          /\ nread' = nread
          /\ msg' = msg
          /\ nwritten' = nwritten
          /\ lastWrite' = lastWrite
          /\ sess' = sess
          /\ sessionID' = sessionID
          /\ heap' = heap
          /\ store' = store]_vars

\* the scope is cancelled and the loop of a connection with an Active
\* session, every frame answered, has returned; the session is as it was
C39_Witness ==
  \E c \in Conns :
    /\ cancelled
    /\ pc[c] = "closed"
    /\ ConnState(c) = StateActive
    /\ lastWrite[c].ok
    /\ nwritten[c] = nread[c]
    /\ Stored(c)

\* C40: Store.mu and the sessions' mutexes are released on every path of
\* Put, Get, Delete and Append, and no call takes one of them while its
\* caller holds the other: a caller that is in no call holds no lock, a
\* caller inside a Store call holds no session's mutex and a caller inside
\* Append holds no Store lock. So the calls never deadlock (while a call is
\* in progress some call can take a step), and under fair scheduling every
\* call that has begun returns.
HoldsStoreLock(c) == mu.writer = c \/ mu.pending = c \/ c \in mu.readers

HoldsSessionLock(c) == \E q \in smu : q[2] = c

NoNestedLocks ==
  \A c \in Conns :
    /\ (spc[c] = "idle" /\ apc[c] = "idle") => ~HoldsLock(c)
    /\ spc[c] # "idle" => ~HoldsSessionLock(c) /\ apc[c] = "idle"
    /\ apc[c] # "idle" => ~HoldsStoreLock(c) /\ spc[c] = "idle"

InCall(c) == spc[c] # "idle" \/ apc[c] # "idle"

NoDeadlock ==
  (\E c \in Conns : InCall(c)) => \E c \in Conns : ENABLED CallStep(c)

C40_LocksReleased ==
  /\ [](NoNestedLocks /\ NoDeadlock)
  /\ \A c \in Conns : InCall(c) ~> ~InCall(c)

\* calls of both kinds, as many as the bound allows, have all returned, and
\* every lock is free again
C40_Witness ==
  /\ CallsBegun = MaxCalls
  /\ ncalls >= 1
  /\ SumTo(asent, NumConns) >= 1
  /\ \A c \in Conns : ~InCall(c)
  /\ mu = [writer |-> 0, pending |-> 0, readers |-> {}]
  /\ smu = {}
  /\ store # EmptyStore

====
